---------------------------- MODULE Spec2Model ----------------------------
(***************************************************************************)
(* Model of the synthetic audit-event generator                            *)
(* (examples/ai-coding-observability/generator/generate.py with config.py  *)
(* and scenarios.py) and of the dashboard builder                          *)
(* (examples/ai-coding-observability/scripts/build-dashboards.py).         *)
(*                                                                         *)
(* Time is counted in whole seconds since the start of calendar month 0;   *)
(* the microsecond part of a datetime is below the resolution of the model *)
(* and every random.uniform draw is taken from the end points of its       *)
(* interval.  An event is the dict built by generate_event restricted to   *)
(* the keys some later code reads (id, session_id, sequence, timestamp,    *)
(* agent_name, action_type, tool_name, result_status, payload,             *)
(* error_message, endpoint_hostname, endpoint_username).  An optional key  *)
(* of a dict is modelled by a membership set (payload.keys) or by the      *)
(* value NoField.                                                          *)
(*                                                                         *)
(* Every random draw has a default outcome; a draw of another outcome      *)
(* spends one unit of `budget`, so that a behaviour holds a bounded number *)
(* of non-default draws.                                                   *)
(***************************************************************************)
EXTENDS Integers, Sequences, FiniteSets, TLC

VARIABLES
    mode,        \* which entry point runs: "session", "transform", "backfill", "bulk", "stream"
    pc,          \* position in the running function
    budget,      \* non-default random draws still allowed
    uuid,        \* number of uuid4() values handed out so far
    gs,          \* frame of generate_session: its arguments and locals
    events,      \* generate_session: the local list `events`
    bf,          \* frame of generate_backfill
    all_events,  \* generate_backfill / inject_threat_scenarios: `all_events`
    inj,         \* frame of inject_threat_scenarios
    log,         \* bookkeeping of what the run created, removed and flipped
    stdout,      \* lines printed on standard output
    bl,          \* frame of bulk_load
    posts,       \* HTTP requests made by requests.post, in order
    st,          \* frame of generate_stream
    scenarios,   \* the list SCENARIOS of scenarios.py as it is in memory
    aliases,     \* <<event id, scenario, template>>: the event's "payload" is that
                 \* template's own dict object
    db,          \* scripts/build-dashboards.py: frame of the running build function
    files        \* scripts/build-dashboards.py: the lines of the files of dashboards/

vars == <<mode, pc, budget, uuid, gs, events, bf, all_events, inj, log, stdout, bl, posts, st,
          scenarios, aliases, db, files>>

-----------------------------------------------------------------------------
(* Bounds of the model *)

\* largest event_count argument given to generate_session directly
MaxEventCount == 3
\* non-default random draws per behaviour
MaxDraws == 1
\* days in a calendar month of the model's calendar
DaysPerMonth == 28
\* largest --days argument
MaxDays == 3

-----------------------------------------------------------------------------
(* Calendar: datetime, strftime("%Y-%m-%dT%H:%M:%S.%fZ") and strptime *)

SecPerMin == 60
SecPerHour == 60 * SecPerMin
SecPerDay == 24 * SecPerHour
SecPerMonth == DaysPerMonth * SecPerDay

\* a format string without the "%Y-%m-" part
StrftimeNoMonth(t) ==
    << 0,
       (t % SecPerMonth) \div SecPerDay,
       (t % SecPerDay) \div SecPerHour,
       (t % SecPerHour) \div SecPerMin,
       t % SecPerMin >>

\* timestamp.strftime("%Y-%m-%dT%H:%M:%S.%fZ"): the fields of the string, most
\* significant first (year and month together, day, hour, minute, second)
Strftime(t) ==
    << t \div SecPerMonth,
       (t % SecPerMonth) \div SecPerDay,
       (t % SecPerDay) \div SecPerHour,
       (t % SecPerHour) \div SecPerMin,
       t % SecPerMin >>

\* datetime.strptime(s, "%Y-%m-%dT%H:%M:%S.%fZ")
Strptime(s) ==
    s[1] * SecPerMonth + s[2] * SecPerDay + s[3] * SecPerHour + s[4] * SecPerMin + s[5]

\* ts.strftime('%Y.%m')
StrftimeYm(t) == t \div SecPerMonth

\* dt.replace(hour=h, minute=m, second=s, microsecond=..)
ReplaceTime(t, h, m, s) == (t \div SecPerDay) * SecPerDay + h * SecPerHour + m * SecPerMin + s

\* order of two timestamp strings (str.__lt__): lexicographic
RECURSIVE StrLess(_, _, _)
StrLess(a, b, i) ==
    IF i > Len(a) THEN FALSE
    ELSE IF a[i] # b[i] THEN a[i] < b[i]
    ELSE StrLess(a, b, i + 1)

StrLeq(a, b) == a = b \/ StrLess(a, b, 1)

-----------------------------------------------------------------------------
(* config.py *)

INDEX_PREFIX == "gryph-events"
OPENSEARCH_URL == "http://localhost:9200"

\* two endpoints of the catalog: the targets of the two window scenarios
ENDPOINTS ==
    << [hostname |-> "dev-linux-012", username |-> "ltaylor"],
       [hostname |-> "dev-mbp-013", username |-> "mwhite"] >>

\* two agents of the catalog (every weight is positive: each can be drawn)
AGENTS ==
    << [name |-> "claude-code"],
       [name |-> "cursor"] >>

ACTION_WEIGHTS == <<"command_exec", "file_read", "file_write", "tool_use", "notification">>

-----------------------------------------------------------------------------
(* Payload dicts and templates *)

NoField == "<absent>"
UserPlaceholder == "{user}"

EmptyPayload == [keys |-> {}, exit_code |-> 0, path |-> <<>>, command |-> <<>>]

CommandPayload(cmd, code) ==
    [keys |-> {"command", "description", "exit_code"}, exit_code |-> code,
     path |-> <<>>, command |-> cmd]

ToolPayload(cmd) ==
    [keys |-> {"command", "description"}, exit_code |-> 0, path |-> <<>>, command |-> cmd]

PathPayload(p) ==
    [keys |-> {"path"}, exit_code |-> 0, path |-> p, command |-> <<>>]

WritePayload(p) ==
    [keys |-> {"path", "lines_added", "lines_removed"}, exit_code |-> 0, path |-> p,
     command |-> <<>>]

\* templates.py: the literal pools _pick_template draws from
COMMAND_EXEC_TEMPLATES ==
    { [command |-> <<"npm test">>, exit_code |-> 0],
      [command |-> <<"npm test">>, exit_code |-> 1] }

FILE_READ_TEMPLATES == { [path |-> <<"/Users/", UserPlaceholder, "/project/src/main.py">>] }

FILE_WRITE_TEMPLATES == { [path |-> <<"/Users/", UserPlaceholder, "/project/src/main.py">>] }

TOOL_USE_TEMPLATES == { [tool |-> "WebSearch", command |-> <<"query">>] }

NOTIFICATION_TEMPLATES == { [tool |-> "Notification", command |-> <<"done">>] }

\* the message pool of generate_event (two of its eight literals)
ERROR_MESSAGES == {"Process exited with non-zero status", "Permission denied"}

\* _pick_template(action_type): the (tool_name, payload, result_status) triples it can return
PickTemplate(action_type) ==
    CASE action_type = "command_exec" ->
            { [tool_name |-> "Bash",
               payload |-> CommandPayload(t.command, t.exit_code),
               result_status |-> IF t.exit_code # 0 THEN "error" ELSE "success"]
              : t \in COMMAND_EXEC_TEMPLATES }
      [] action_type = "file_read" ->
            { [tool_name |-> tool, payload |-> PathPayload(t.path), result_status |-> "success"]
              : tool \in {"Read", "Glob", "Grep"}, t \in FILE_READ_TEMPLATES }
      [] action_type = "file_write" ->
            { [tool_name |-> tool, payload |-> WritePayload(t.path), result_status |-> "success"]
              : tool \in {"Write", "Edit"}, t \in FILE_WRITE_TEMPLATES }
      [] action_type = "tool_use" ->
            { [tool_name |-> t.tool, payload |-> ToolPayload(t.command),
               result_status |-> "success"] : t \in TOOL_USE_TEMPLATES }
      [] action_type = "notification" ->
            { [tool_name |-> t.tool, payload |-> ToolPayload(t.command),
               result_status |-> "success"] : t \in NOTIFICATION_TEMPLATES }
      [] OTHER ->
            { [tool_name |-> "Unknown", payload |-> EmptyPayload, result_status |-> "success"] }

\* s.replace("{user}", username) on a string held as its list of pieces
ReplaceUser(s, username) ==
    [i \in DOMAIN s |-> IF s[i] = UserPlaceholder THEN username ELSE s[i]]

\* the template_override generate_session passes for its two markers
SessionMarker == [tool_name |-> "", payload |-> EmptyPayload, result_status |-> "success"]

\* generate_event: `tmpl` is template_override when one is given and the draw of
\* _pick_template otherwise; `msg` is the draw from the message pool
GenerateEvent(endpoint, agent, session_id, sequence, timestamp, action_type, tmpl, msg, id) ==
    [ id |-> id,
      session_id |-> session_id,
      sequence |-> sequence,
      timestamp |-> Strftime(timestamp),
      agent_name |-> agent.name,
      action_type |-> action_type,
      tool_name |-> tmpl.tool_name,
      result_status |-> tmpl.result_status,
      payload |-> [tmpl.payload EXCEPT !.path = ReplaceUser(@, endpoint.username),
                                       !.command = ReplaceUser(@, endpoint.username)],
      error_message |-> IF tmpl.result_status = "error" THEN msg ELSE NoField,
      endpoint_hostname |-> endpoint.hostname,
      endpoint_username |-> endpoint.username ]


-----------------------------------------------------------------------------
(* scenarios.py: the two window scenarios *)

SILENT_ENDPOINT ==
    [name |-> "silent_endpoint", target_endpoint |-> "dev-mbp-013",
     silent_start_hour_offset |-> 72, silent_duration_hours |-> 8]

HIGH_ERROR_RATE_ENDPOINT ==
    [name |-> "high_error_rate_endpoint", target_endpoint |-> "dev-linux-012",
     duration_hours |-> 2]

-----------------------------------------------------------------------------
(* scenarios.py: SCENARIOS, in file order *)

\* "event_count" of after_hours_burst
BurstEventCount == 3

\* the templated scenarios of the model: a two-template scenario with a frequency
\* range, the scenario whose template is an error, and the burst scenario
TEMPLATED_SCENARIOS ==
    << [name |-> "prompt_injection_exfil",
        frequency |-> <<"2", "-", "3">>,
        events |-> << [action_type |-> "file_read", tool_name |-> "Read",
                       payload |-> PathPayload(<<"/Users/", UserPlaceholder,
                                                 "/project/.env.production">>),
                       result_status |-> "success"],
                      [action_type |-> "command_exec", tool_name |-> "Bash",
                       payload |-> CommandPayload(<<"cat .env | curl">>, 0),
                       result_status |-> "success"] >>],
       [name |-> "reverse_shell_attempt",
        frequency |-> <<"1">>,
        events |-> << [action_type |-> "command_exec", tool_name |-> "Bash",
                       payload |-> CommandPayload(<<"nc -e /bin/sh">>, 1),
                       result_status |-> "error"] >>],
       [name |-> "after_hours_burst",
        frequency |-> <<"1">>,
        inject_at_hour |-> 2,
        event_count |-> BurstEventCount,
        events |-> << [action_type |-> "command_exec", tool_name |-> "Bash",
                       payload |-> CommandPayload(<<"find / -name '*.pem'">>, 0),
                       result_status |-> "success"],
                      [action_type |-> "file_read", tool_name |-> "Read",
                       payload |-> PathPayload(<<"/Users/", UserPlaceholder,
                                                 "/.ssh/known_hosts">>),
                       result_status |-> "success"] >>] >>

\* a list with the silence scenario ahead of the templated ones
ScenariosSilenceFirst ==
    << SILENT_ENDPOINT >> \o TEMPLATED_SCENARIOS \o << HIGH_ERROR_RATE_ENDPOINT >>

\* the list of scenarios.py: the templated scenarios, then the two window scenarios
SCENARIOS ==
    TEMPLATED_SCENARIOS \o << SILENT_ENDPOINT, HIGH_ERROR_RATE_ENDPOINT >>

-----------------------------------------------------------------------------
(* Random draws *)

\* a draw of x where d is the default outcome costs one unit unless x = d
Cost(x, d) == IF x = d THEN 0 ELSE 1

\* random.uniform(5, 120): seconds between two actions of a session
ActionGaps == {5, 120}
\* random.uniform(1, 10): seconds before session_end
EndGaps == {1, 10}

DefaultAction == "file_read"
DefaultPick == [tool_name |-> "Read",
                payload |-> PathPayload(<<"/Users/", UserPlaceholder, "/project/src/main.py">>),
                result_status |-> "success"]
DefaultMessage == "Process exited with non-zero status"

\* the message draw happens only for an error event
Messages(result_status) == IF result_status = "error" THEN ERROR_MESSAGES ELSE {DefaultMessage}

-----------------------------------------------------------------------------
(* Frames of the functions that are not running *)

NoSession ==
    [endpoint |-> ENDPOINTS[1], agent |-> AGENTS[1], start_time |-> 0, event_count |-> 0,
     session_id |-> 0, current_time |-> 0, seq |-> 0, ret |-> "done"]

NoBackfill ==
    [days |-> 0, load |-> FALSE, end_date |-> 0, start_date |-> 0, endpoint |-> 1,
     current_date |-> 0, n_sessions |-> 0, total |-> 0,
     drawn |-> <<1, 5>>]

NoInject == [scenario |-> 1, count |-> 0, start_date |-> 0, end_date |-> 0, ret |-> "done",
             freq |-> <<>>, returned |-> -1, base |-> 1]

NoLog == [sessions |-> {}, injected |-> {}, removed |-> {}, flipped |-> {}, before |-> <<>>,
          window |-> 0, calls |-> <<>>, warned |-> {}, failed |-> 0]

NoBulk == [url |-> "", queue |-> <<>>, total |-> 0, warnings |-> 0,
           ret |-> "done", base |-> 0]

\* scripts/build-dashboards.py: no build function has run, dashboards/ is empty
NoBuild ==
    [fn |-> 1, step |-> 1, objects |-> <<>>, panels |-> <<>>, i |-> 0, panels_json |-> <<>>,
     references |-> <<>>, written |-> 0]

DashboardFiles == {"soc-overview.ndjson", "threat-detection.ndjson", "agent-activity.ndjson", "endpoint-health.ndjson"}

NoFiles == [f \in DashboardFiles |-> <<>>]

NoStream ==
    [load |-> FALSE, sleep |-> 0, buffer |-> <<>>, last_flush |-> 0, clock |-> 0,
     total_streamed |-> 0, iterations |-> 0, endpoint |-> ENDPOINTS[1], agent |-> AGENTS[1],
     session_id |-> 0, n_events |-> 0, seq |-> 0, interrupted |-> FALSE, calls_before |-> 0,
     posts_before |-> 0]

-----------------------------------------------------------------------------
(* generate_session(endpoint, agent, start_time, event_count) *)

\* session_id = uuid4(); events = []; current_time = start_time; the session_start event
GsStart ==
    /\ pc = "gs_start"
    /\ events' = << GenerateEvent(gs.endpoint, gs.agent, uuid, 0, gs.start_time,
                                  "session_start", SessionMarker, DefaultMessage, uuid + 1) >>
    /\ gs' = [gs EXCEPT !.session_id = uuid, !.current_time = gs.start_time, !.seq = 1]
    /\ uuid' = uuid + 2
    /\ pc' = "gs_loop"
    /\ UNCHANGED <<mode, db, files, scenarios, aliases, budget, bf, all_events, inj, log, stdout, bl, posts, st>>

\* one iteration of `for seq in range(1, event_count + 1)`
GsAction ==
    /\ pc = "gs_loop"
    /\ gs.seq <= gs.event_count
    /\ \E gap \in ActionGaps, action_type \in {ACTION_WEIGHTS[i] : i \in DOMAIN ACTION_WEIGHTS} :
         \E pick \in PickTemplate(action_type) :
           \E msg \in Messages(pick.result_status) :
             LET cost == Cost(gap, 5) + Cost(<<action_type, pick>>, <<DefaultAction, DefaultPick>>)
                         + Cost(msg, DefaultMessage)
                 now == gs.current_time + gap
             IN /\ cost <= budget
                /\ budget' = budget - cost
                /\ events' = Append(events,
                                GenerateEvent(gs.endpoint, gs.agent, gs.session_id, gs.seq, now,
                                              action_type, pick, msg, uuid))
                /\ gs' = [gs EXCEPT !.current_time = now, !.seq = gs.seq + 1]
    /\ uuid' = uuid + 1
    /\ pc' = "gs_loop"
    /\ UNCHANGED <<mode, db, files, scenarios, aliases, bf, all_events, inj, log, stdout, bl, posts, st>>

\* after the loop: the session_end event, then `return events`
GsEnd ==
    /\ pc = "gs_loop"
    /\ gs.seq > gs.event_count
    /\ \E gap \in EndGaps :
         LET now == gs.current_time + gap
         IN /\ Cost(gap, 1) <= budget
            /\ budget' = budget - Cost(gap, 1)
            /\ events' = Append(events,
                            GenerateEvent(gs.endpoint, gs.agent, gs.session_id,
                                          gs.event_count + 1, now, "session_end",
                                          SessionMarker, DefaultMessage, uuid))
            /\ gs' = [gs EXCEPT !.current_time = now]
    /\ uuid' = uuid + 1
    /\ pc' = gs.ret
    /\ UNCHANGED <<mode, db, files, scenarios, aliases, bf, all_events, inj, log, stdout, bl, posts, st>>

\* start times given to generate_session directly: at the start of the calendar
\* and a few seconds before a minute, a day and a month end
SessionStartTimes == {0, SecPerMin - 7, SecPerDay - 3, 2 * SecPerMonth - 6}

InitSession ==
    /\ mode = "session"
    /\ pc = "gs_start"
    /\ budget = MaxDraws
    /\ uuid = 1
    /\ scenarios = SCENARIOS
    /\ aliases = {}
    /\ db = NoBuild
    /\ files = NoFiles
    /\ \E e \in DOMAIN ENDPOINTS, a \in DOMAIN AGENTS, t \in SessionStartTimes,
          n \in 0 .. MaxEventCount :
         gs = [NoSession EXCEPT !.endpoint = ENDPOINTS[e], !.agent = AGENTS[a],
                                !.start_time = t, !.event_count = n]
    /\ events = <<>>
    /\ bf = NoBackfill
    /\ all_events = <<>>
    /\ inj = NoInject
    /\ log = NoLog
    /\ stdout = <<>>
    /\ bl = NoBulk
    /\ posts = <<>>
    /\ st = NoStream

NextSession == GsStart \/ GsAction \/ GsEnd

SpecSession == InitSession /\ [][NextSession]_vars


-----------------------------------------------------------------------------
(* _apply_silent_endpoint(all_events, scenario, start_date) *)

SilentStart(scenario, start_date) == start_date + scenario.silent_start_hour_offset * SecPerHour

SilentEnd(scenario, start_date) ==
    SilentStart(scenario, start_date) + scenario.silent_duration_hours * SecPerHour

\* a window open at its end
SilencedHalfOpen(e, scenario, start_date) ==
    /\ e.endpoint_hostname = scenario.target_endpoint
    /\ SilentStart(scenario, start_date) <= Strptime(e.timestamp)
    /\ Strptime(e.timestamp) < SilentEnd(scenario, start_date)

\* the condition of the list comprehension: the event is dropped
Silenced(e, scenario, start_date) ==
    /\ e.endpoint_hostname = scenario.target_endpoint
    /\ SilentStart(scenario, start_date) <= Strptime(e.timestamp)
    /\ Strptime(e.timestamp) <= SilentEnd(scenario, start_date)

KeepEvent(e, scenario, start_date) == ~Silenced(e, scenario, start_date)

\* the pass without its window test: every event of the target endpoint is dropped
ApplySilentNoWindow(list, scenario, start_date) ==
    SelectSeq(list, LAMBDA e : e.endpoint_hostname # scenario.target_endpoint)

\* all_events[:] = [e for e in all_events if not (..)]
ApplySilentEndpoint(list, scenario, start_date) ==
    SelectSeq(list, LAMBDA e : KeepEvent(e, scenario, start_date))

-----------------------------------------------------------------------------
(* _apply_high_error_rate(all_events, scenario, start_date, end_date) *)

\* random.uniform(0, (end_date - start_date).total_seconds() * 0.8): its end points
WindowOffsets(start_date, end_date) == {0, ((end_date - start_date) * 8) \div 10}

WindowEnd(scenario, window_start) == window_start + scenario.duration_hours * SecPerHour

\* the pass without its `endpoint_hostname != target` test
InErrorWindowAnyHost(e, scenario, window_start) ==
    /\ window_start <= Strptime(e.timestamp)
    /\ Strptime(e.timestamp) <= WindowEnd(scenario, window_start)

\* the events for which random.random() is drawn
InErrorWindow(e, scenario, window_start) ==
    /\ e.endpoint_hostname = scenario.target_endpoint
    /\ window_start <= Strptime(e.timestamp)
    /\ Strptime(e.timestamp) <= WindowEnd(scenario, window_start)

Drawn(list, scenario, window_start) ==
    {i \in DOMAIN list : InErrorWindow(list[i], scenario, window_start)}

\* a flip that sets result_status and leaves the payload alone
FlipToErrorStatusOnly(e) == [e EXCEPT !.result_status = "error"]

\* the body of `if random.random() < error_rate`
FlipToError(e) ==
    [e EXCEPT !.result_status = "error",
              !.payload.exit_code = IF "exit_code" \in e.payload.keys THEN 1 ELSE @]

\* `flips`: the positions whose draw fell below error_rate
ApplyHighErrorRate(list, scenario, window_start, flips) ==
    [i \in DOMAIN list |->
        IF i \in flips /\ InErrorWindow(list[i], scenario, window_start)
        THEN FlipToError(list[i]) ELSE list[i]]

-----------------------------------------------------------------------------
(* The two window passes applied directly to a list of events *)

\* longest list the passes are applied to
MaxListLen == 3

\* --days default: the window the passes are given
DefaultDays == 7

TfStartDate == SecPerDay + 3 * SecPerHour + 17

\* timestamps around the ends of the windows
TfTimes ==
    LET ss == SilentStart(SILENT_ENDPOINT, TfStartDate)
        se == SilentEnd(SILENT_ENDPOINT, TfStartDate)
    IN {ss - 1, ss, se, se + 1}

\* window starts drawn by the error pass: each inside [0, 0.8 * total]
TfWindowStarts ==
    LET ss == SilentStart(SILENT_ENDPOINT, TfStartDate)
        se == SilentEnd(SILENT_ENDPOINT, TfStartDate)
    IN {ss, se - HIGH_ERROR_RATE_ENDPOINT.duration_hours * SecPerHour}

TfPicks ==
    {DefaultPick} \cup PickTemplate("command_exec")

\* all_events.append(generate_event(..)) for an arbitrary event
TfAppend ==
    /\ pc = "tf_build"
    /\ Len(all_events) < MaxListLen
    /\ \E e \in DOMAIN ENDPOINTS, t \in TfTimes, pick \in TfPicks :
         all_events' = Append(all_events,
                          GenerateEvent(ENDPOINTS[e], AGENTS[1], 0, Len(all_events), t,
                                        IF pick = DefaultPick THEN "file_read" ELSE "command_exec",
                                        pick, DefaultMessage, uuid))
    /\ uuid' = uuid + 1
    /\ UNCHANGED <<mode, db, files, scenarios, aliases, pc, budget, gs, events, bf, inj, log, stdout, bl, posts, st>>

TfSilent ==
    /\ pc = "tf_build"
    /\ all_events' = ApplySilentEndpoint(all_events, SILENT_ENDPOINT, inj.start_date)
    /\ log' = [log EXCEPT !.before = all_events]
    /\ pc' = "tf_silent_done"
    /\ UNCHANGED <<mode, db, files, scenarios, aliases, budget, uuid, gs, events, bf, inj, stdout, bl, posts, st>>

TfError ==
    /\ pc = "tf_build"
    /\ \E ws \in TfWindowStarts :
         \E flips \in SUBSET Drawn(all_events, HIGH_ERROR_RATE_ENDPOINT, ws) :
            /\ all_events' = ApplyHighErrorRate(all_events, HIGH_ERROR_RATE_ENDPOINT, ws, flips)
            /\ log' = [log EXCEPT !.before = all_events, !.window = ws, !.flipped = flips]
    /\ pc' = "tf_error_done"
    /\ UNCHANGED <<mode, db, files, scenarios, aliases, budget, uuid, gs, events, bf, inj, stdout, bl, posts, st>>

InitTransform ==
    /\ mode = "transform"
    /\ pc = "tf_build"
    /\ budget = 0
    /\ uuid = 1
    /\ scenarios = SCENARIOS
    /\ aliases = {}
    /\ db = NoBuild
    /\ files = NoFiles
    /\ gs = NoSession
    /\ events = <<>>
    /\ bf = NoBackfill
    /\ all_events = <<>>
    /\ inj = [NoInject EXCEPT !.start_date = TfStartDate,
                              !.end_date = TfStartDate + DefaultDays * SecPerDay]
    /\ log = NoLog
    /\ stdout = <<>>
    /\ bl = NoBulk
    /\ posts = <<>>
    /\ st = NoStream

NextTransform == TfAppend \/ TfSilent \/ TfError

SpecTransform == InitTransform /\ [][NextTransform]_vars


-----------------------------------------------------------------------------
(* Properties of generate_session (SpecSession) *)

\* C1: generate_session returns event_count + 2 events whose sequence numbers are
\* 0, 1, .., event_count + 1 in list order, the first a session_start, the last a
\* session_end, with timestamps non-decreasing along the list.
C1_SessionShape ==
    (mode = "session" /\ pc = "done") =>
        /\ Len(events) = gs.event_count + 2
        /\ \A i \in DOMAIN events : events[i].sequence = i - 1
        /\ events[1].action_type = "session_start"
        /\ events[Len(events)].action_type = "session_end"
        /\ \A i \in DOMAIN events :
              (events[i].action_type = "session_start") = (i = 1)
        /\ \A i \in 1 .. Len(events) - 1 :
              /\ StrLeq(events[i].timestamp, events[i + 1].timestamp)
              /\ Strptime(events[i].timestamp) <= Strptime(events[i + 1].timestamp)

\* a returned session with at least two actions that runs over the end of a month
C1_Witness ==
    /\ mode = "session"
    /\ pc = "done"
    /\ gs.event_count >= 2
    /\ events[1].timestamp[1] < events[Len(events)].timestamp[1]

-----------------------------------------------------------------------------
(* Properties of the window passes (SpecTransform) *)

C3_Start == TfStartDate + 72 * SecPerHour
C3_End == TfStartDate + 72 * SecPerHour + 8 * SecPerHour

C3_InWindow(e) ==
    /\ e.endpoint_hostname = "dev-mbp-013"
    /\ C3_Start <= Strptime(e.timestamp)
    /\ Strptime(e.timestamp) <= C3_End

C3_Kept == {i \in DOMAIN log.before : ~C3_InWindow(log.before[i])}

\* C3: the silence pass removes every event of the target endpoint whose timestamp
\* lies in the closed window [start_date + 72h, start_date + 80h] and keeps every
\* other event, unmodified and in the same relative order.
C3_SilenceFrame ==
    (mode = "transform" /\ pc = "tf_silent_done") =>
        /\ \A i \in DOMAIN all_events : ~C3_InWindow(all_events[i])
        /\ Len(all_events) = Cardinality(C3_Kept)
        /\ \A i \in C3_Kept :
              all_events[Cardinality({j \in C3_Kept : j <= i})] = log.before[i]

\* the pass removed an event at an end of the window and kept two others, one of
\* them an event of the target endpoint just outside the window
C3_Witness ==
    /\ mode = "transform"
    /\ pc = "tf_silent_done"
    /\ Len(all_events) = 2
    /\ Len(log.before) = 3
    /\ C3_InWindow(log.before[2])
    /\ Strptime(log.before[2].timestamp) = C3_End
    /\ all_events[2].endpoint_hostname = "dev-mbp-013"
    /\ Strptime(all_events[2].timestamp) = C3_End + 1

C6_InWindow(e) ==
    /\ e.endpoint_hostname = "dev-linux-012"
    /\ log.window <= Strptime(e.timestamp)
    /\ Strptime(e.timestamp) <= log.window + 2 * SecPerHour

C6_Flipped(e) ==
    [e EXCEPT !.result_status = "error",
              !.payload = IF "exit_code" \in e.payload.keys
                          THEN [e.payload EXCEPT !.exit_code = 1] ELSE e.payload]

\* C6: the error-rate pass changes only successful events of the target endpoint
\* inside the window, each either left as it was or flipped to error (exit_code 1
\* when the payload has one); every other event is unchanged and no event is added,
\* removed or reordered.
C6_ErrorRateFrame ==
    (mode = "transform" /\ pc = "tf_error_done") =>
        /\ Len(all_events) = Len(log.before)
        /\ \A i \in DOMAIN all_events :
              \/ all_events[i] = log.before[i]
              \/ /\ C6_InWindow(log.before[i])
                 /\ log.before[i].result_status = "success"
                 /\ all_events[i] = C6_Flipped(log.before[i])

\* in one window one successful event was flipped (its exit_code set to 1), another
\* was left alone, and an event of the other endpoint lies in the same window
C6_Witness ==
    /\ mode = "transform"
    /\ pc = "tf_error_done"
    /\ \E i, j, k \in DOMAIN all_events :
          /\ C6_InWindow(log.before[i]) /\ C6_InWindow(log.before[j])
          /\ log.before[i].result_status = "success"
          /\ log.before[j].result_status = "success"
          /\ "exit_code" \in log.before[i].payload.keys
          /\ all_events[i].result_status = "error"
          /\ all_events[i].payload.exit_code = 1
          /\ all_events[j] = log.before[j]
          /\ log.before[k].endpoint_hostname = "dev-mbp-013"
          /\ log.window <= Strptime(log.before[k].timestamp)
          /\ Strptime(log.before[k].timestamp) <= log.window + 2 * SecPerHour


-----------------------------------------------------------------------------
(* Strings *)

\* a string literal as its characters
Digits == {"0", "1", "2", "3", "4", "5", "6", "7", "8", "9"}

-----------------------------------------------------------------------------
(* _parse_frequency(freq_str) *)

\* length of the longest run of digits of s that starts at position i
RECURSIVE DigitRun(_, _)
DigitRun(s, i) == IF i <= Len(s) /\ s[i] \in Digits THEN 1 + DigitRun(s, i + 1) ELSE 0

DigitValue(c) == CHOOSE n \in 0 .. 9 : ToString(n) = c

\* int() of the digits s[i .. j]
RECURSIVE IntOf(_, _, _)
IntOf(s, i, j) == IF j < i THEN 0 ELSE 10 * IntOf(s, i, j - 1) + DigitValue(s[j])

\* re.match(r"(\d+)(?:-(\d+))?", s): whether it matches, and groups 1 and 2
FrequencyMatch(s) ==
    LET n1 == DigitRun(s, 1)
        dash == n1 + 1 <= Len(s) /\ s[n1 + 1] = "-"
        n2 == IF dash THEN DigitRun(s, n1 + 2) ELSE 0
    IN [matched |-> n1 > 0,
        low |-> IntOf(s, 1, n1),
        has_high |-> n2 > 0,
        high |-> IntOf(s, n1 + 2, n1 + 1 + n2)]

\* a draw that leaves out the upper end, as random.randrange(low, high) does
ParseFrequencyHalfOpen(s) ==
    LET m == FrequencyMatch(s)
        high == IF m.has_high THEN m.high ELSE m.low
    IN IF m.matched THEN m.low .. high - 1 ELSE {1}

\* the values _parse_frequency can return; {} when random.randint raises
ParseFrequency(s) ==
    LET m == FrequencyMatch(s)
        high == IF m.has_high THEN m.high ELSE m.low
    IN IF m.matched THEN m.low .. high ELSE {1}


-----------------------------------------------------------------------------
(* inject_threat_scenarios(all_events, start_date, end_date) *)

Min(a, b) == IF a < b THEN a ELSE b
\* a clamp that lets the draw through
MaxUnclamped(a, b) == b

Max(a, b) == IF a > b THEN a ELSE b

\* the list `for scenario in SCENARIOS` runs over: the list of scenarios.py, or a
\* list of one templated scenario whose "frequency" is the string under study
ScenarioList ==
    IF mode = "frequency" THEN << [scenarios[inj.base] EXCEPT !.frequency = inj.freq] >>
    ELSE scenarios

\* the place in SCENARIOS of the scenario the loop is at
ScenarioIndex == IF mode = "frequency" THEN inj.base ELSE inj.scenario

\* a dict object made by the call that uses it: the dict of no template
OwnDict == <<0, 0>>

\* a generate_event that takes the payload of its template as it is
PayloadObjectShared(template) == template

\* payload = {k: v for k, v in template_override.get("payload", {}).items()}: the
\* dict object that becomes the event's "payload", for the template
\* <<scenario, position>>
PayloadObject(template) == OwnDict

\* payload[key] = payload[key].replace("{user}", ..) for key in ("path", "command")
ReplacedPayload(payload, username) ==
    [payload EXCEPT !.path = ReplaceUser(@, username), !.command = ReplaceUser(@, username)]

\* the templates of scenario s after generate_event has run with the templates at
\* the positions `used`: its assignments to payload[key] reach a template whose dict
\* the payload object is
TemplatesAfter(s, used, endpoint) ==
    [k \in DOMAIN scenarios[s].events |->
        IF k \in used /\ PayloadObject(<<s, k>>) = <<s, k>>
        THEN [scenarios[s].events[k] EXCEPT !.payload = ReplacedPayload(@, endpoint.username)]
        ELSE scenarios[s].events[k]]

\* the events of a repetition whose payload is not a dict of their own; choice[k]
\* is the template of the k-th event, whose id is first_id + k - 1
NewAliases(s, choice, first_id) ==
    {<<first_id + k - 1, s, choice[k]>> : k \in {j \in DOMAIN choice :
                                                  PayloadObject(<<s, choice[j]>>) # OwnDict}}

\* event["payload"]["exit_code"] = 1 for the events at the positions `flips`: the
\* templates whose dict one of these payloads is
FlippedTemplates(list, flips) ==
    {<<a[2], a[3]>> : a \in {x \in aliases :
                                \E i \in flips : /\ list[i].id = x[1]
                                                 /\ "exit_code" \in list[i].payload.keys}}

ScenariosAfterFlips(list, flips) ==
    [s \in DOMAIN scenarios |->
        IF "events" \in DOMAIN scenarios[s]
        THEN [scenarios[s] EXCEPT !.events =
                 [k \in DOMAIN @ |->
                     IF <<s, k>> \in FlippedTemplates(list, flips)
                     THEN [@[k] EXCEPT !.payload.exit_code = 1] ELSE @[k]]]
        ELSE scenarios[s]]

IsWindowScenario(sc) == sc.name \in {"silent_endpoint", "high_error_rate_endpoint"}

\* scenario.get("events", [])
EventsToInject(sc) == IF "events" \in DOMAIN sc THEN sc.events ELSE <<>>

\* (end_date - start_date).days
DaysBetween(start_date, end_date) == (end_date - start_date) \div SecPerDay

\* number of entries of a draw vector that differ from the default d
Deviations(f, d) == Cardinality({i \in DOMAIN f : f[i] # d})

\* a repetition that numbers its events from 0
InjectedEventsFromZero(endpoint, agent, session_id, ts, tmpl, mult, first_id) ==
    [k \in DOMAIN tmpl |->
        GenerateEvent(endpoint, agent, session_id, k - 1, ts + (k - 1) * mult[k],
                      tmpl[k].action_type, tmpl[k], DefaultMessage, first_id + k - 1)]

\* the events one repetition appends: event i (from 0) is built by generate_event
\* from tmpl[i + 1] with sequence i + 1 at ts + i * mult[i + 1]
InjectedEvents(endpoint, agent, session_id, ts, tmpl, mult, first_id) ==
    [k \in DOMAIN tmpl |->
        GenerateEvent(endpoint, agent, session_id, k, ts + (k - 1) * mult[k],
                      tmpl[k].action_type, tmpl[k], DefaultMessage, first_id + k - 1)]

\* `if scenario["name"] == "silent_endpoint"`
InjSilent ==
    /\ pc = "inj_loop"
    /\ inj.scenario <= Len(ScenarioList)
    /\ ScenarioList[inj.scenario].name = "silent_endpoint"
    /\ all_events' = ApplySilentEndpoint(all_events, ScenarioList[inj.scenario], inj.start_date)
    /\ log' = [log EXCEPT !.removed = {all_events[i].id : i \in DOMAIN all_events}
                                      \ {all_events'[i].id : i \in DOMAIN all_events'},
                          !.before = all_events]
    /\ inj' = [inj EXCEPT !.scenario = @ + 1]
    /\ UNCHANGED <<mode, db, files, scenarios, aliases, pc, budget, uuid, gs, events, bf, stdout, bl, posts, st>>

\* `if scenario["name"] == "high_error_rate_endpoint"`
InjError ==
    /\ pc = "inj_loop"
    /\ inj.scenario <= Len(ScenarioList)
    /\ ScenarioList[inj.scenario].name = "high_error_rate_endpoint"
    /\ \E off \in WindowOffsets(inj.start_date, inj.end_date) :
         LET ws == inj.start_date + off
         IN \E flips \in SUBSET Drawn(all_events, ScenarioList[inj.scenario], ws) :
              LET cost == Cost(off, 0) + Cardinality(flips)
              IN /\ cost <= budget
                 /\ budget' = budget - cost
                 /\ all_events' = ApplyHighErrorRate(all_events, ScenarioList[inj.scenario],
                                                     ws, flips)
                 /\ log' = [log EXCEPT !.window = ws,
                                       !.flipped = {all_events[i].id : i \in flips}]
                 /\ scenarios' = ScenariosAfterFlips(all_events, flips)
    /\ inj' = [inj EXCEPT !.scenario = @ + 1]
    /\ UNCHANGED <<mode, db, files, aliases, pc, uuid, gs, events, bf, stdout, bl, posts, st>>

\* a templated scenario: count = _parse_frequency(freq); no repetition when the
\* scenario has no events
InjEnter ==
    /\ pc = "inj_loop"
    /\ inj.scenario <= Len(ScenarioList)
    /\ ~IsWindowScenario(ScenarioList[inj.scenario])
    /\ LET sc == ScenarioList[inj.scenario]
           counts == IF EventsToInject(sc) = <<>> THEN {0} ELSE ParseFrequency(sc.frequency)
       IN \/ /\ counts = {}
             /\ pc' = "raised"
             /\ UNCHANGED <<inj, budget>>
          \/ \E count \in counts :
                LET cost == IF count = 0 THEN 0
                            ELSE Cost(count, FrequencyMatch(sc.frequency).low)
                IN /\ cost <= budget
                   /\ budget' = budget - cost
                   /\ inj' = [inj EXCEPT !.count = count,
                                         !.returned = IF EventsToInject(sc) = <<>>
                                                      THEN @ ELSE count]
                   /\ pc' = "inj_rep"
    /\ UNCHANGED <<mode, db, files, scenarios, aliases, uuid, gs, events, bf, all_events, log, stdout, bl, posts, st>>

\* one repetition of a scenario without inject_at_hour: the events are scattered
\* from a start drawn in [start_date, end_date]
InjScatter ==
    /\ pc = "inj_rep"
    /\ inj.count > 0
    /\ "inject_at_hour" \notin DOMAIN ScenarioList[inj.scenario]
    /\ LET tmpl == ScenarioList[inj.scenario].events
       IN \E e \in DOMAIN ENDPOINTS, a \in DOMAIN AGENTS,
             off \in {0, inj.end_date - inj.start_date},
             mult \in [DOMAIN tmpl -> {5, 30}] :
            LET cost == Cost(e, 1) + Cost(a, 1) + Cost(off, 0) + Deviations(mult, 5)
                new == InjectedEvents(ENDPOINTS[e], AGENTS[a], uuid, inj.start_date + off,
                                      tmpl, mult, uuid + 1)
            IN /\ cost <= budget
               /\ budget' = budget - cost
               /\ all_events' = all_events \o new
               /\ log' = [log EXCEPT !.injected = @ \cup (uuid + 1 .. uuid + Len(tmpl))]
               /\ uuid' = uuid + 1 + Len(tmpl)
               /\ scenarios' = [scenarios EXCEPT ![ScenarioIndex].events =
                                    TemplatesAfter(ScenarioIndex, DOMAIN tmpl, ENDPOINTS[e])]
               /\ aliases' = aliases \cup NewAliases(ScenarioIndex, [k \in DOMAIN tmpl |-> k],
                                                      uuid + 1)
    /\ inj' = [inj EXCEPT !.count = @ - 1]
    /\ UNCHANGED <<mode, db, files, pc, gs, events, bf, stdout, bl, posts, st>>

\* one repetition of a scenario with inject_at_hour: burst_count events, each from a
\* drawn template, from a start at that hour of a drawn day
InjBurst ==
    /\ pc = "inj_rep"
    /\ inj.count > 0
    /\ "inject_at_hour" \in DOMAIN ScenarioList[inj.scenario]
    /\ LET sc == ScenarioList[inj.scenario]
           days == DaysBetween(inj.start_date, inj.end_date)
           burst_count == IF "event_count" \in DOMAIN sc THEN sc.event_count
                          ELSE Len(sc.events)
       IN \/ \* random.randint(0, -1) raises ValueError
             /\ days - 1 < 0
             /\ pc' = "raised"
             /\ UNCHANGED <<inj, budget, all_events, log, uuid, scenarios, aliases>>
          \/ \E e \in DOMAIN ENDPOINTS, a \in DOMAIN AGENTS, day_offset \in 0 .. days - 1,
                ms \in {<<0, 0>>, <<59, 59>>},
                choice \in [1 .. burst_count -> DOMAIN sc.events],
                mult \in [1 .. burst_count -> {3, 15}] :
               LET cost == Cost(e, 1) + Cost(a, 1) + Cost(day_offset, 0) + Cost(ms, <<0, 0>>)
                           + Deviations(choice, 1) + Deviations(mult, 3)
                   ts == ReplaceTime(inj.start_date + day_offset * SecPerDay,
                                     sc.inject_at_hour, ms[1], ms[2])
                   new == InjectedEvents(ENDPOINTS[e], AGENTS[a], uuid, ts,
                                         [k \in 1 .. burst_count |-> sc.events[choice[k]]],
                                         mult, uuid + 1)
               IN /\ cost <= budget
                  /\ budget' = budget - cost
                  /\ all_events' = all_events \o new
                  /\ log' = [log EXCEPT !.injected = @ \cup (uuid + 1 .. uuid + burst_count)]
                  /\ uuid' = uuid + 1 + burst_count
                  /\ scenarios' = [scenarios EXCEPT ![ScenarioIndex].events =
                                       TemplatesAfter(ScenarioIndex,
                                                      {choice[k] : k \in 1 .. burst_count},
                                                      ENDPOINTS[e])]
                  /\ aliases' = aliases \cup NewAliases(ScenarioIndex, choice, uuid + 1)
                  /\ inj' = [inj EXCEPT !.count = @ - 1]
                  /\ pc' = pc
    /\ UNCHANGED <<mode, db, files, gs, events, bf, stdout, bl, posts, st>>

\* `for _ in range(count)` is over: next scenario
InjRepDone ==
    /\ pc = "inj_rep"
    /\ inj.count = 0
    /\ inj' = [inj EXCEPT !.scenario = @ + 1]
    /\ pc' = "inj_loop"
    /\ UNCHANGED <<mode, db, files, scenarios, aliases, budget, uuid, gs, events, bf, all_events, log, stdout, bl, posts, st>>

\* `for scenario in SCENARIOS` is over: return all_events
InjReturn ==
    /\ pc = "inj_loop"
    /\ inj.scenario > Len(ScenarioList)
    /\ pc' = inj.ret
    /\ UNCHANGED <<mode, db, files, scenarios, aliases, budget, uuid, gs, events, bf, all_events, inj, log, stdout, bl,
                   posts, st>>


-----------------------------------------------------------------------------
(* bulk_load(events, opensearch_url, index_prefix) *)

\* events per request (`range(0, len(index_events), 5000)`), scaled to the lists of
\* the model
ChunkSize == 2

\* json.dumps(obj): one line of text; it holds no raw line break
JsonDumps(obj) == [json |-> obj]

\* the index named after the first month of the calendar, not the event's own
IndexNameFixed(event, index_prefix) == <<index_prefix, 0>>

\* f"{index_prefix}-{ts.strftime('%Y.%m')}" of an event
IndexName(event, index_prefix) ==
    <<index_prefix, StrftimeYm(Strptime(event.timestamp))>>

\* by_index[index_name]: the events of one index, in input order
IndexEvents(list, index_prefix, index_name) ==
    SelectSeq(list, LAMBDA e : IndexName(e, index_prefix) = index_name)

\* index_events[chunk_start : chunk_start + 5000] for chunk_start = 0, 5000, ..
Chunks(index_name, index_events) ==
    [c \in 1 .. (Len(index_events) + ChunkSize - 1) \div ChunkSize |->
        [index_name |-> index_name,
         chunk |-> SubSeq(index_events, (c - 1) * ChunkSize + 1,
                          Min(c * ChunkSize, Len(index_events)))]]

\* sorted(by_index.items()): the chunks of every index, indices in the order of
\* their names
RECURSIVE ChunkQueue(_, _, _)
ChunkQueue(list, index_prefix, names) ==
    IF names = {} THEN <<>>
    ELSE LET first == CHOOSE n \in names : \A m \in names : n[2] <= m[2]
         IN Chunks(first, IndexEvents(list, index_prefix, first))
            \o ChunkQueue(list, index_prefix, names \ {first})

\* a body whose action lines all carry the _id of the chunk's first event
BulkBodyFirstId(index_name, chunk) ==
    [k \in 1 .. 2 * Len(chunk) |->
        IF k % 2 = 1
        THEN JsonDumps([index |-> [_index |-> index_name, _id |-> chunk[1].id]])
        ELSE JsonDumps(chunk[k \div 2])]

\* the lines of one request body: an action line, then the document, per event
BulkBody(index_name, chunk) ==
    [k \in 1 .. 2 * Len(chunk) |->
        IF k % 2 = 1
        THEN JsonDumps([index |-> [_index |-> index_name, _id |-> chunk[(k + 1) \div 2].id]])
        ELSE JsonDumps(chunk[k \div 2])]

EventIds(list) == [i \in DOMAIN list |-> list[i].id]

\* the call: by_index is built, total = 0 (`base`: the requests made before the call)
BulkLoadCall(list, opensearch_url, index_prefix, ret) ==
    [url |-> opensearch_url,
     queue |-> ChunkQueue(list, index_prefix,
                          {IndexName(list[i], index_prefix) : i \in DOMAIN list}),
     total |-> 0,
     warnings |-> 0,
     ret |-> ret,
     base |-> Len(posts)]

\* the responses a request can get: a 2xx response without item errors, a 2xx
\* response whose "errors" flag is set, a non-2xx response
Responses == {"ok", "item_errors", "http_error"}

\* a raise_for_status() that lets every response through
RaiseForStatusNever(response) == FALSE

\* resp.raise_for_status(): raises on a non-2xx response only
RaiseForStatus(response) == response = "http_error"

\* a total that leaves out the chunks whose response reported item errors
CountedOkOnly(response, chunk) == IF response = "ok" THEN Len(chunk) ELSE 0

\* total += len(chunk): reached for every 2xx response, after the warning if any
Counted(response, chunk) == Len(chunk)

\* one requests.post: raise_for_status() raises on a non-2xx response; a 2xx
\* response that reports item errors only prints a warning
BlPost ==
    /\ pc = "bl_post"
    /\ bl.queue # <<>>
    /\ LET c == Head(bl.queue)
       IN /\ posts' = Append(posts, [url |-> <<bl.url, "/_bulk">>,
                                     index_name |-> c.index_name,
                                     body |-> BulkBody(c.index_name, c.chunk)])
          /\ \E response \in Responses :
               /\ Cost(response, "ok") <= budget
               /\ budget' = budget - Cost(response, "ok")
               /\ log' = [log EXCEPT
                            !.warned = IF response = "item_errors"
                                       THEN @ \cup {Len(posts')} ELSE @,
                            !.failed = IF response = "http_error" THEN Len(posts') ELSE @]
               /\ IF RaiseForStatus(response)
                  THEN /\ pc' = "raised"
                       /\ bl' = bl
                  ELSE /\ pc' = pc
                       /\ bl' = [bl EXCEPT !.queue = Tail(@),
                                           !.total = @ + Counted(response, c.chunk),
                                           !.warnings = @ + Cost(response, "ok")]
    /\ UNCHANGED <<mode, db, files, scenarios, aliases, uuid, gs, events, bf, all_events, inj, stdout, st>>

\* `return total`
BlReturn ==
    /\ pc = "bl_post"
    /\ bl.queue = <<>>
    /\ pc' = bl.ret
    /\ UNCHANGED <<mode, db, files, scenarios, aliases, budget, uuid, gs, events, bf, all_events, inj, log, stdout, bl,
                   posts, st>>


-----------------------------------------------------------------------------
(* generate_backfill(days, load) *)

\* int(random.gauss(SESSIONS_PER_DAY_MEAN, SESSIONS_PER_DAY_STD)): values around
\* the lower clamp of n_sessions
GaussSessions == {0, 1, 2}
\* int(random.gauss(EVENTS_PER_SESSION_MEAN, EVENTS_PER_SESSION_STD)): values around
\* the lower clamp of n_events
GaussEvents == {4, 5, 6}

WORK_HOURS_START == 9
WORK_HOURS_END == 18

\* the hour draw: the ends of [*range(0, WORK_HOURS_START), *range(WORK_HOURS_END, 24)]
\* when random.random() < OFF_HOURS_PROBABILITY, else of
\* randint(WORK_HOURS_START, WORK_HOURS_END - 1)
SessionHours == {0, WORK_HOURS_START - 1, WORK_HOURS_END, 23}
                \cup {WORK_HOURS_START, WORK_HOURS_END - 1}

\* (hour, minute, second) of session_start
SessionClock == {<<h, ms[1], ms[2]>> : h \in SessionHours, ms \in {<<0, 0>>, <<59, 59>>}}

DefaultClock == <<WORK_HOURS_START, 0, 0>>

\* all_events.sort(key=lambda e: e["timestamp"]): a stable sort on the strings
\* position of list[i] after the sort: behind every event with a smaller key and
\* every earlier event with the same key
SortedPositionNoTies(list, i) ==
    1 + Cardinality({j \in DOMAIN list : StrLess(list[j].timestamp, list[i].timestamp, 1)})

SortedPosition(list, i) ==
    1 + Cardinality({j \in DOMAIN list :
                        \/ StrLess(list[j].timestamp, list[i].timestamp, 1)
                        \/ j < i /\ list[j].timestamp = list[i].timestamp})

RECURSIVE PlaceSorted(_, _, _)
PlaceSorted(list, i, acc) ==
    IF i > Len(list) THEN acc
    ELSE PlaceSorted(list, i + 1, [acc EXCEPT ![SortedPosition(list, i)] = list[i]])

\* a run that leaves the list in the order it was built
SortSkipped(list) == list

SortByTimestamp(list) == PlaceSorted(list, 1, list)

\* `for endpoint in ENDPOINTS`: current_date = start_date at midnight
BfEndpoint ==
    /\ pc = "bf_endpoint"
    /\ bf.endpoint <= Len(ENDPOINTS)
    /\ bf' = [bf EXCEPT !.current_date = ReplaceTime(bf.start_date, 0, 0, 0)]
    /\ pc' = "bf_day"
    /\ UNCHANGED <<mode, db, files, scenarios, aliases, budget, uuid, gs, events, all_events, inj, log, stdout, bl, posts, st>>

\* `while current_date < end_date`: n_sessions = max(1, int(gauss(..)))
BfDay ==
    /\ pc = "bf_day"
    /\ bf.current_date < bf.end_date
    /\ \E g \in GaussSessions :
         /\ Cost(g, 1) <= budget
         /\ budget' = budget - Cost(g, 1)
         /\ bf' = [bf EXCEPT !.n_sessions = Max(1, g), !.drawn[1] = g]
    /\ pc' = "bf_session"
    /\ UNCHANGED <<mode, db, files, scenarios, aliases, uuid, gs, events, all_events, inj, log, stdout, bl, posts, st>>

\* the while loop is over: next endpoint
BfEndpointDone ==
    /\ pc = "bf_day"
    /\ ~(bf.current_date < bf.end_date)
    /\ bf' = [bf EXCEPT !.endpoint = @ + 1]
    /\ pc' = "bf_endpoint"
    /\ UNCHANGED <<mode, db, files, scenarios, aliases, budget, uuid, gs, events, all_events, inj, log, stdout, bl, posts, st>>

\* one iteration of `for _ in range(n_sessions)` up to the call of generate_session
BfSession ==
    /\ pc = "bf_session"
    /\ bf.n_sessions > 0
    /\ \E a \in DOMAIN AGENTS, g \in GaussEvents, clock \in SessionClock :
         LET cost == Cost(a, 1) + Cost(g, 5) + Cost(clock, DefaultClock)
         IN /\ cost <= budget
            /\ budget' = budget - cost
            /\ gs' = [NoSession EXCEPT
                        !.endpoint = ENDPOINTS[bf.endpoint],
                        !.agent = AGENTS[a],
                        !.start_time = ReplaceTime(bf.current_date, clock[1], clock[2], clock[3]),
                        !.event_count = Max(5, g),
                        !.ret = "bf_extend"]
            /\ bf' = [bf EXCEPT !.drawn[2] = g]
    /\ events' = <<>>
    /\ pc' = "gs_start"
    /\ UNCHANGED <<mode, db, files, scenarios, aliases, uuid, all_events, inj, log, stdout, bl, posts, st>>

\* all_events.extend(events)
BfExtend ==
    /\ pc = "bf_extend"
    /\ all_events' = all_events \o events
    /\ log' = [log EXCEPT !.sessions = @ \cup {[session_id |-> gs.session_id,
                                                endpoint |-> gs.endpoint.hostname,
                                                day |-> bf.current_date,
                                                event_count |-> gs.event_count,
                                                drawn |-> bf.drawn]}]
    /\ bf' = [bf EXCEPT !.n_sessions = @ - 1]
    /\ pc' = "bf_session"
    /\ UNCHANGED <<mode, db, files, scenarios, aliases, budget, uuid, gs, events, inj, stdout, bl, posts, st>>

\* the for loop is over: current_date += timedelta(days=1)
BfDayDone ==
    /\ pc = "bf_session"
    /\ bf.n_sessions = 0
    /\ bf' = [bf EXCEPT !.current_date = @ + SecPerDay]
    /\ pc' = "bf_day"
    /\ UNCHANGED <<mode, db, files, scenarios, aliases, budget, uuid, gs, events, all_events, inj, log, stdout, bl, posts, st>>

\* inject_threat_scenarios(all_events, start_date, end_date)
BfInject ==
    /\ pc = "bf_endpoint"
    /\ bf.endpoint > Len(ENDPOINTS)
    /\ inj' = [NoInject EXCEPT !.start_date = bf.start_date, !.end_date = bf.end_date,
                               !.ret = "bf_sort"]
    /\ pc' = "inj_loop"
    /\ UNCHANGED <<mode, db, files, scenarios, aliases, budget, uuid, gs, events, bf, all_events, log, stdout, bl, posts, st>>

\* all_events.sort(..), then the output: the call of bulk_load, or one printed line
\* per event
BfOutput ==
    /\ pc = "bf_sort"
    /\ all_events' = SortByTimestamp(all_events)
    /\ IF bf.load
       THEN /\ bl' = BulkLoadCall(all_events', OPENSEARCH_URL, INDEX_PREFIX, "bf_loaded")
            /\ log' = [log EXCEPT !.calls = Append(@, EventIds(all_events'))]
            /\ pc' = "bl_post"
            /\ stdout' = stdout
       ELSE /\ stdout' = stdout \o [i \in DOMAIN all_events' |-> JsonDumps(all_events'[i])]
            /\ pc' = "done"
            /\ UNCHANGED <<bl, log>>
    /\ UNCHANGED <<mode, db, files, scenarios, aliases, budget, uuid, gs, events, bf, inj, posts, st>>

\* total = bulk_load(..) has returned
BfLoaded ==
    /\ pc = "bf_loaded"
    /\ bf' = [bf EXCEPT !.total = bl.total]
    /\ pc' = "done"
    /\ UNCHANGED <<mode, db, files, scenarios, aliases, budget, uuid, gs, events, all_events, inj, log, stdout, bl, posts, st>>

\* end_date = datetime.now(timezone.utc): the third second after nine o'clock of
\* the first day of month 1
EndDates == {SecPerMonth + WORK_HOURS_START * SecPerHour + 3}

InitBackfill ==
    /\ mode = "backfill"
    /\ pc = "bf_endpoint"
    /\ budget = MaxDraws
    /\ uuid = 1
    /\ scenarios = SCENARIOS
    /\ aliases = {}
    /\ db = NoBuild
    /\ files = NoFiles
    /\ gs = NoSession
    /\ events = <<>>
    /\ \E days \in 0 .. MaxDays, load \in BOOLEAN, end_date \in EndDates :
         bf = [NoBackfill EXCEPT !.days = days, !.load = load, !.end_date = end_date,
                                 !.start_date = end_date - days * SecPerDay]
    /\ all_events = <<>>
    /\ inj = NoInject
    /\ log = NoLog
    /\ stdout = <<>>
    /\ bl = NoBulk
    /\ posts = <<>>
    /\ st = NoStream

NextBackfill ==
    \/ BfEndpoint \/ BfDay \/ BfEndpointDone \/ BfSession \/ BfExtend \/ BfDayDone
    \/ GsStart \/ GsAction \/ GsEnd
    \/ BfInject \/ InjSilent \/ InjError \/ InjEnter \/ InjScatter \/ InjBurst
    \/ InjRepDone \/ InjReturn
    \/ BfOutput \/ BlPost \/ BlReturn \/ BfLoaded

SpecBackfill == InitBackfill /\ [][NextBackfill]_vars


-----------------------------------------------------------------------------
(* Properties of a backfill run (SpecBackfill) *)

\* the events a run has emitted: the printed objects and the posted documents
Emitted ==
    {stdout[i].json : i \in DOMAIN stdout}
    \cup UNION { {posts[p].body[k].json : k \in {j \in DOMAIN posts[p].body : j % 2 = 0}}
                 : p \in DOMAIN posts }

\* C2: every emitted event has result_status "error" if and only if it carries an
\* error_message field.
C2_ErrorIffMessage ==
    mode = "backfill" =>
        \A e \in Emitted : (e.result_status = "error") <=> (e.error_message # NoField)

\* C4: every event of the generated list has its timestamp within
\* [end_date - days, end_date].
C4_WithinWindow ==
    mode = "backfill" =>
        \A i \in DOMAIN all_events :
            /\ bf.end_date - bf.days * SecPerDay <= Strptime(all_events[i].timestamp)
            /\ Strptime(all_events[i].timestamp) <= bf.end_date

RECURSIVE C5_SessionLengths(_)
C5_SessionLengths(sessions) ==
    IF sessions = {} THEN 0
    ELSE LET s == CHOOSE x \in sessions : TRUE
         IN (2 + s.event_count) + C5_SessionLengths(sessions \ {s})

\* C5: a finished backfill run with days = 1 and load off has printed one JSON
\* object per line, one line per event of the list, and the number of lines is the
\* sum over the generated sessions of 2 + event_count plus the number of injected
\* scenario events.
C5_PrintedLineCount ==
    (mode = "backfill" /\ pc = "done" /\ ~bf.load /\ bf.days = 1) =>
        /\ Len(stdout) = C5_SessionLengths(log.sessions) + Cardinality(log.injected)
        /\ Len(stdout) = Len(all_events)
        /\ \A i \in DOMAIN stdout : stdout[i] = [json |-> all_events[i]]
        /\ posts = <<>>

\* a finished days = 1 run that printed a session of six actions and the events
\* of every templated scenario
C5_Witness ==
    /\ mode = "backfill" /\ pc = "done" /\ ~bf.load /\ bf.days = 1
    /\ Len(stdout) > 0
    /\ \E s \in log.sessions : s.event_count = 6
    /\ Cardinality(log.injected) >= 8

C7_OfSession(sid) == SelectSeq(all_events, LAMBDA e : e.session_id = sid)

\* C7: in the emitted list the events of every session id have sequence numbers
\* contiguous from 0 (a session_start) through N+1 (a session_end) and
\* non-decreasing timestamps in sequence order, injected sessions and sessions cut
\* by the silence window included.
C7_SessionsContiguous ==
    (mode = "backfill" /\ pc = "done") =>
        \A sid \in {all_events[i].session_id : i \in DOMAIN all_events} :
            LET evs == C7_OfSession(sid)
                seqs == {evs[i].sequence : i \in DOMAIN evs}
            IN /\ seqs = 0 .. Len(evs) - 1
               /\ \A i \in DOMAIN evs :
                     /\ (evs[i].sequence = 0) => evs[i].action_type = "session_start"
                     /\ (evs[i].sequence = Len(evs) - 1) => evs[i].action_type = "session_end"
               /\ \A i, j \in DOMAIN evs :
                     evs[i].sequence <= evs[j].sequence
                        => StrLeq(evs[i].timestamp, evs[j].timestamp)


-----------------------------------------------------------------------------
(* bulk_load applied directly to a list of events *)

\* longest list given to bulk_load directly
MaxBulkLen == 5

\* timestamps on both sides of two month ends
BulkTimes == {SecPerMonth - 1, SecPerMonth, 2 * SecPerMonth - 1, 2 * SecPerMonth}

BkAppend ==
    /\ pc = "bk_build"
    /\ Len(all_events) < MaxBulkLen
    /\ \E t \in BulkTimes :
         all_events' = Append(all_events,
                          GenerateEvent(ENDPOINTS[1], AGENTS[1], 0, Len(all_events), t,
                                        "file_read", DefaultPick, DefaultMessage, uuid))
    /\ uuid' = uuid + 1
    /\ UNCHANGED <<mode, db, files, scenarios, aliases, pc, budget, gs, events, bf, inj, log, stdout, bl, posts, st>>

BkCall ==
    /\ pc = "bk_build"
    /\ bl' = BulkLoadCall(all_events, OPENSEARCH_URL, INDEX_PREFIX, "done")
    /\ log' = [log EXCEPT !.calls = Append(@, EventIds(all_events))]
    /\ pc' = "bl_post"
    /\ UNCHANGED <<mode, db, files, scenarios, aliases, budget, uuid, gs, events, bf, all_events, inj, stdout, posts, st>>

InitBulk ==
    /\ mode = "bulk"
    /\ pc = "bk_build"
    /\ budget = MaxDraws
    /\ uuid = 1
    /\ scenarios = SCENARIOS
    /\ aliases = {}
    /\ db = NoBuild
    /\ files = NoFiles
    /\ gs = NoSession
    /\ events = <<>>
    /\ bf = NoBackfill
    /\ all_events = <<>>
    /\ inj = NoInject
    /\ log = NoLog
    /\ stdout = <<>>
    /\ bl = NoBulk
    /\ posts = <<>>
    /\ st = NoStream

NextBulk == BkAppend \/ BkCall \/ BlPost \/ BlReturn

SpecBulk == InitBulk /\ [][NextBulk]_vars

-----------------------------------------------------------------------------
(* Properties of bulk_load (SpecBulk) *)

\* the documents of a request, in body order
C9_Docs(p) == [k \in 1 .. Len(posts[p].body) \div 2 |-> posts[p].body[2 * k].json]

\* the requests that went to one bucket, in the order they were made
C9_PostsOf(name) == SelectSeq([p \in DOMAIN posts |-> p], LAMBDA p : posts[p].index_name = name)

RECURSIVE C9_Concat(_, _)
C9_Concat(ps, k) == IF k > Len(ps) THEN <<>> ELSE C9_Docs(ps[k]) \o C9_Concat(ps, k + 1)

\* C9: when every request succeeded, each input event was submitted in exactly one
\* request, to the bucket <prefix>-<year.month> of its own timestamp; the requests
\* of a bucket carry its events in input order, in consecutive chunks of at most
\* ChunkSize events.
C9_Partition ==
    (mode = "bulk" /\ pc = "done") =>
        /\ \A p \in DOMAIN posts :
              /\ Len(C9_Docs(p)) \in 1 .. ChunkSize
              /\ \A k \in DOMAIN C9_Docs(p) :
                    posts[p].index_name = <<"gryph-events", C9_Docs(p)[k].timestamp[1]>>
        /\ \A i \in DOMAIN all_events :
              Cardinality({<<p, k>> \in (DOMAIN posts) \X (1 .. ChunkSize) :
                              k <= Len(C9_Docs(p)) /\ C9_Docs(p)[k] = all_events[i]}) = 1
        /\ \A name \in {posts[p].index_name : p \in DOMAIN posts} :
              /\ C9_Concat(C9_PostsOf(name), 1)
                    = SelectSeq(all_events, LAMBDA e : e.timestamp[1] = name[2])
              /\ \A k \in 1 .. Len(C9_PostsOf(name)) - 1 :
                    Len(C9_Docs(C9_PostsOf(name)[k])) = ChunkSize
        /\ bl.total = Len(all_events)

\* a finished load of two buckets, given out of month order, one of them split into
\* a full chunk and a rest
C9_Witness ==
    /\ mode = "bulk"
    /\ pc = "done"
    /\ Len(all_events) = ChunkSize + 2
    /\ all_events[1].timestamp[1] > all_events[2].timestamp[1]
    /\ Len(posts) = 3
    /\ bl.total = Len(all_events)

\* C10: the body of every request has 2 x (chunk size) lines, an index-action line
\* before each document line; the action line names the chunk's bucket as _index and
\* the id of the document that follows as _id; the request goes to <url>/_bulk.
C10_BodyShape ==
    mode = "bulk" =>
        \A p \in DOMAIN posts :
            /\ posts[p].url = <<"http://localhost:9200", "/_bulk">>
            /\ Len(posts[p].body) % 2 = 0
            /\ Len(posts[p].body) \in 2 .. 2 * ChunkSize
            /\ \A k \in 1 .. Len(posts[p].body) \div 2 :
                  /\ posts[p].body[2 * k - 1]
                        = [json |-> [index |-> [_index |-> posts[p].index_name,
                                                _id |-> posts[p].body[2 * k].json.id]]]
                  /\ \E i \in DOMAIN all_events : posts[p].body[2 * k] = [json |-> all_events[i]]

\* a request that carries a full chunk of distinct events
C10_Witness ==
    /\ mode = "bulk"
    /\ \E p \in DOMAIN posts :
          /\ Len(posts[p].body) = 2 * ChunkSize
          /\ posts[p].body[2].json.id # posts[p].body[4].json.id


-----------------------------------------------------------------------------
(* generate_stream(rate, load) *)

\* iterations of `while True` a behaviour holds
MaxIterations == 3

\* time.sleep(1.0 / rate), in seconds, for the rates 1 and 0.2
SleepSeconds == {1, 5}

\* datetime.now(timezone.utc) when time.time() is 0
StreamEpoch == 2 * SecPerMonth - 6

\* a draw of the event count from a wider range
RandintEventsWide == 0 .. 4

\* random.randint(1, 3)
RandintEvents == 1 .. 3

\* top of the loop body: endpoint, agent, session_id, n_events = randint(1, 3)
StIter ==
    /\ pc = "st_iter"
    /\ st.iterations < MaxIterations
    /\ \E e \in DOMAIN ENDPOINTS, a \in DOMAIN AGENTS, n \in RandintEvents :
         LET cost == Cost(e, 1) + Cost(a, 1) + Cost(n, 1)
         IN /\ cost <= budget
            /\ budget' = budget - cost
            /\ st' = [st EXCEPT !.endpoint = ENDPOINTS[e], !.agent = AGENTS[a],
                                !.session_id = uuid, !.n_events = n, !.seq = 0]
    /\ uuid' = uuid + 1
    /\ pc' = "st_gen"
    /\ UNCHANGED <<mode, db, files, scenarios, aliases, gs, events, bf, all_events, inj, log, stdout, bl, posts>>

\* `if load: buffer.append(event)`: what the buffer gains
Buffered(load, event) == IF load THEN <<event>> ELSE <<>>

\* a loop that prints the event whatever load is
PrintedAlways(load, event) == <<JsonDumps(event)>>

\* `else: print(json.dumps(event))`: the lines standard output gains
Printed(load, event) == IF load THEN <<>> ELSE <<JsonDumps(event)>>

\* one iteration of `for seq in range(n_events)`
StEvent ==
    /\ pc = "st_gen"
    /\ st.seq < st.n_events
    /\ \E action_type \in {ACTION_WEIGHTS[i] : i \in DOMAIN ACTION_WEIGHTS} :
         \E pick \in PickTemplate(action_type) :
           \E msg \in Messages(pick.result_status) :
             LET cost == Cost(<<action_type, pick>>, <<DefaultAction, DefaultPick>>)
                         + Cost(msg, DefaultMessage)
                 event == GenerateEvent(st.endpoint, st.agent, st.session_id, st.seq,
                                        StreamEpoch + st.clock, action_type, pick, msg, uuid)
             IN /\ cost <= budget
                /\ budget' = budget - cost
                /\ st' = [st EXCEPT !.buffer = @ \o Buffered(st.load, event),
                                    !.total_streamed = @ + 1, !.seq = @ + 1]
                /\ stdout' = stdout \o Printed(st.load, event)
    /\ uuid' = uuid + 1
    /\ UNCHANGED <<mode, db, files, scenarios, aliases, pc, gs, events, bf, all_events, inj, log, bl, posts>>

\* a test that leaves out the time since the last flush
FlushDueAlways(load, now, last_flush) == load

\* `if load and (time.time() - last_flush) >= 5`
FlushDue(load, now, last_flush) == load /\ now - last_flush >= 5

\* the test at the end of an iteration, up to the call of bulk_load; `last_flush =
\* time.time()` when there is nothing to flush
StCheck ==
    /\ pc = "st_gen"
    /\ st.seq = st.n_events
    /\ IF FlushDue(st.load, st.clock, st.last_flush)
       THEN IF st.buffer # <<>>
            THEN /\ bl' = BulkLoadCall(st.buffer, OPENSEARCH_URL, INDEX_PREFIX, "st_flushed")
                 /\ log' = [log EXCEPT !.calls = Append(@, EventIds(st.buffer))]
                 /\ pc' = "bl_post"
                 /\ st' = st
            ELSE /\ st' = [st EXCEPT !.last_flush = st.clock]
                 /\ pc' = "st_sleep"
                 /\ UNCHANGED <<bl, log>>
       ELSE /\ pc' = "st_sleep"
            /\ UNCHANGED <<bl, log, st>>
    /\ UNCHANGED <<mode, db, files, scenarios, aliases, budget, uuid, gs, events, bf, all_events, inj, stdout, posts>>

\* bulk_load has returned: buffer = []; last_flush = time.time()
StFlushed ==
    /\ pc = "st_flushed"
    /\ st' = [st EXCEPT !.buffer = <<>>, !.last_flush = st.clock]
    /\ pc' = "st_sleep"
    /\ UNCHANGED <<mode, db, files, scenarios, aliases, budget, uuid, gs, events, bf, all_events, inj, log, stdout, bl, posts>>

\* time.sleep(1.0 / rate)
StSleep ==
    /\ pc = "st_sleep"
    /\ st' = [st EXCEPT !.clock = @ + st.sleep, !.iterations = @ + 1]
    /\ pc' = "st_iter"
    /\ UNCHANGED <<mode, db, files, scenarios, aliases, budget, uuid, gs, events, bf, all_events, inj, log, stdout, bl, posts>>

\* a handler that stops without the flush
StInterruptNoFlush ==
    /\ mode = "stream"
    /\ ~st.interrupted
    /\ pc \in {"st_iter", "st_gen", "st_sleep", "st_flushed", "bl_post"}
    /\ pc' = "st_stopped"
    /\ st' = [st EXCEPT !.interrupted = TRUE, !.calls_before = Len(log.calls),
                        !.posts_before = Len(posts)]
    /\ log' = [log EXCEPT !.before = st.buffer]
    /\ UNCHANGED <<mode, db, files, scenarios, aliases, budget, uuid, gs, events, bf, all_events, inj, stdout, posts, bl>>

\* KeyboardInterrupt anywhere inside the try block, and the except clause up to the
\* call of bulk_load
StInterrupt ==
    /\ mode = "stream"
    /\ ~st.interrupted
    /\ pc \in {"st_iter", "st_gen", "st_sleep", "st_flushed", "bl_post"}
    /\ IF st.load /\ st.buffer # <<>>
       THEN /\ bl' = BulkLoadCall(st.buffer, OPENSEARCH_URL, INDEX_PREFIX, "st_stopped")
            /\ log' = [log EXCEPT !.calls = Append(@, EventIds(st.buffer)),
                                  !.before = st.buffer]
            /\ pc' = "bl_post"
       ELSE /\ pc' = "st_stopped"
            /\ log' = [log EXCEPT !.before = st.buffer]
            /\ bl' = bl
    /\ st' = [st EXCEPT !.interrupted = TRUE, !.calls_before = Len(log.calls),
                        !.posts_before = Len(posts)]
    /\ UNCHANGED <<mode, db, files, scenarios, aliases, budget, uuid, gs, events, bf, all_events, inj, stdout, posts>>

\* the last statement of the except clause (the total goes to stderr)
StStopped ==
    /\ pc = "st_stopped"
    /\ pc' = "done"
    /\ UNCHANGED <<mode, db, files, scenarios, aliases, budget, uuid, gs, events, bf, all_events, inj, log, stdout, bl,
                   posts, st>>

InitStream ==
    /\ mode = "stream"
    /\ pc = "st_iter"
    /\ budget = MaxDraws
    /\ uuid = 1
    /\ scenarios = SCENARIOS
    /\ aliases = {}
    /\ db = NoBuild
    /\ files = NoFiles
    /\ gs = NoSession
    /\ events = <<>>
    /\ bf = NoBackfill
    /\ all_events = <<>>
    /\ inj = NoInject
    /\ log = NoLog
    /\ stdout = <<>>
    /\ bl = NoBulk
    /\ posts = <<>>
    /\ \E load \in BOOLEAN, sleep \in SleepSeconds :
         st = [NoStream EXCEPT !.load = load, !.sleep = sleep]

NextStream ==
    \/ StIter \/ StEvent \/ StCheck \/ StFlushed \/ StSleep \/ StInterrupt \/ StStopped
    \/ BlPost \/ BlReturn

SpecStream == InitStream /\ [][NextStream]_vars

-----------------------------------------------------------------------------
(* Properties of generate_stream (SpecStream) *)

\* the calls of bulk_load made by the except clause
C8_HandlerCalls == SubSeq(log.calls, st.calls_before + 1, Len(log.calls))

\* C8: with load on, an interrupt that finds the buffer non-empty is followed by
\* exactly one call of bulk_load, with the buffered events, and the driver exits; an
\* interrupt that finds the buffer empty is followed by no call.
C8_InterruptFlush ==
    (mode = "stream" /\ st.interrupted /\ st.load) =>
        /\ IF log.before # <<>>
           THEN C8_HandlerCalls = << [i \in DOMAIN log.before |-> log.before[i].id] >>
           ELSE C8_HandlerCalls = <<>>
        /\ pc \in {"bl_post", "st_stopped", "done", "raised"}
        /\ pc = "bl_post" => bl.ret = "st_stopped"
        /\ st.buffer = log.before
        /\ (pc = "done" /\ log.before # <<>>) =>
              \A i \in DOMAIN log.before :
                 \E p \in st.posts_before + 1 .. Len(posts) :
                    \E k \in DOMAIN posts[p].body : posts[p].body[k] = [json |-> log.before[i]]

\* the driver has exited after an interrupt that found events in the buffer, and a
\* periodic flush had been made before
C8_Witness ==
    /\ mode = "stream" /\ st.interrupted /\ st.load
    /\ pc = "done"
    /\ Len(log.before) >= 2
    /\ st.calls_before >= 1

\* the driver has exited after an interrupt that found the buffer empty
C8_WitnessEmpty ==
    /\ mode = "stream" /\ st.interrupted /\ st.load
    /\ pc = "done"
    /\ log.before = <<>>
    /\ st.total_streamed > 0

-----------------------------------------------------------------------------
(* Properties of bulk_load's handling of the responses *)

\* the documents of the first k requests, counted
RECURSIVE C11_DocCount(_)
C11_DocCount(k) == IF k = 0 THEN 0 ELSE Len(posts[k].body) \div 2 + C11_DocCount(k - 1)

\* C11: a 2xx response that reports item errors only adds a warning: the events of
\* its chunk are counted in total, the remaining chunks and buckets are submitted,
\* and bulk_load returns the number of input events.
C11_ItemErrorsCounted ==
    mode = "bulk" =>
        /\ pc \in {"bl_post", "done"} =>
              bl.total = C11_DocCount(Len(posts)) - C11_DocCount(bl.base)
        /\ pc = "done" =>
              /\ bl.queue = <<>>
              /\ bl.total = Len(all_events)
              /\ bl.warnings = Cardinality(log.warned)
        /\ pc = "raised" => Len(posts) \notin log.warned

\* bulk_load has returned after three requests in two buckets, the first of which
\* got a response reporting item errors
C11_Witness ==
    /\ mode = "bulk"
    /\ pc = "done"
    /\ log.warned = {1}
    /\ Len(posts) >= 3
    /\ \E p \in DOMAIN posts : posts[p].index_name # posts[1].index_name
    /\ bl.total = Len(all_events)

\* C12: a non-2xx response makes bulk_load raise at that chunk: the chunk is the
\* last request ever made (no retry, no later chunk or bucket), its events are not
\* counted, the requests made before it stay as they were, and the caller does not
\* go on.
C12_Raised ==
    log.failed # 0 =>
        /\ pc = "raised"
        /\ Len(posts) = log.failed
        /\ bl.queue # <<>>
        /\ posts[log.failed].body = BulkBody(Head(bl.queue).index_name, Head(bl.queue).chunk)
        /\ bl.total = C11_DocCount(log.failed - 1) - C11_DocCount(bl.base)
        /\ bf.total = 0

C12_HttpErrorRaises ==
    /\ []C12_Raised
    /\ [][/\ Len(posts') >= Len(posts)
          /\ \A p \in DOMAIN posts : posts'[p] = posts[p]
          /\ pc = "raised" => pc' = "raised"]_vars

\* a backfill run with load on has stopped at the second request, with two more
\* chunks still to send
C12_Witness ==
    /\ mode = "backfill"
    /\ pc = "raised"
    /\ log.failed = 2
    /\ Len(bl.queue) >= 3
    /\ bl.total = ChunkSize

-----------------------------------------------------------------------------
(* inject_threat_scenarios over one templated scenario with a given "frequency" *)

\* longest frequency string
MaxFreqLen == 3

\* largest number written in a frequency string
MaxRepeat == 3

\* the characters of the frequency strings: digits, the dash, and another character
FreqAlphabet == {"0", "1", "3", "-", "x"}

FreqStrings ==
    {s \in UNION {[1 .. n -> FreqAlphabet] : n \in 0 .. MaxFreqLen} :
        /\ FrequencyMatch(s).low <= MaxRepeat
        /\ FrequencyMatch(s).high <= MaxRepeat}

\* the scenarios of SCENARIOS that replay their templates in order
TemplatedScenarios ==
    {k \in DOMAIN SCENARIOS : /\ ~IsWindowScenario(SCENARIOS[k])
                              /\ "inject_at_hour" \notin DOMAIN SCENARIOS[k]}

\* events the list holds before the call
ExistingEvents ==
    << GenerateEvent(ENDPOINTS[1], AGENTS[1], 0, 0, SecPerMonth,
                     "session_start", SessionMarker, DefaultMessage, 0) >>

InitFrequency ==
    /\ mode = "frequency"
    /\ pc = "inj_loop"
    /\ budget = MaxDraws
    /\ uuid = 1
    /\ scenarios = SCENARIOS
    /\ aliases = {}
    /\ db = NoBuild
    /\ files = NoFiles
    /\ gs = NoSession
    /\ events = <<>>
    /\ bf = NoBackfill
    /\ all_events \in {<<>>, ExistingEvents}
    /\ \E f \in FreqStrings, end_date \in EndDates, base \in TemplatedScenarios :
         inj = [NoInject EXCEPT !.freq = f, !.base = base, !.end_date = end_date,
                                !.start_date = end_date - DefaultDays * SecPerDay]
    /\ log = NoLog
    /\ stdout = <<>>
    /\ bl = NoBulk
    /\ posts = <<>>
    /\ st = NoStream

NextFrequency == InjEnter \/ InjScatter \/ InjRepDone \/ InjReturn

SpecFrequency == InitFrequency /\ [][NextFrequency]_vars

-----------------------------------------------------------------------------
(* Properties of _parse_frequency and of the repetition loop (SpecFrequency) *)

\* the string is "N", or "LOW-HIGH" with LOW <= HIGH
C13_WellFormed(s) ==
    LET n1 == DigitRun(s, 1)
        n2 == DigitRun(s, n1 + 2)
    IN /\ n1 > 0
       /\ \/ n1 = Len(s)
          \/ /\ n1 + 1 <= Len(s)
             /\ s[n1 + 1] = "-"
             /\ n2 > 0
             /\ n1 + 1 + n2 = Len(s)
             /\ IntOf(s, 1, n1) <= IntOf(s, n1 + 2, Len(s))

\* _parse_frequency has been called and has returned or raised
C13_Called == mode = "frequency" /\ (pc = "raised" \/ inj.returned # -1)

\* C13: for every frequency string that is not a well-formed "N" or "LOW-HIGH" with
\* LOW <= HIGH, _parse_frequency returns 1 and does not raise.
C13_MalformedGivesOne ==
    (C13_Called /\ ~C13_WellFormed(inj.freq)) =>
        /\ pc # "raised"
        /\ inj.returned = 1

\* a reversed range has made random.randint raise
C13_ReversedRaises ==
    /\ mode = "frequency"
    /\ inj.freq = <<"3", "-", "1">>
    /\ pc = "raised"

\* digits followed by other text are read as the number
C13_PrefixRead ==
    /\ mode = "frequency"
    /\ inj.freq = <<"3", "x">>
    /\ inj.returned = 3

\* sessions the repetitions have appended
C14_Sessions == {all_events[i].session_id : i \in DOMAIN all_events} \ {0}

\* C14: for "LOW-HIGH" with LOW <= HIGH _parse_frequency returns n with
\* LOW <= n <= HIGH, for "N" it returns N, and the scenario is repeated exactly that
\* many times.
C14_CountInRange ==
    (C13_Called /\ C13_WellFormed(inj.freq)) =>
        LET s == inj.freq
            n1 == DigitRun(s, 1)
            low == IntOf(s, 1, n1)
            high == IF n1 = Len(s) THEN low ELSE IntOf(s, n1 + 2, Len(s))
        IN /\ pc # "raised"
           /\ low <= inj.returned /\ inj.returned <= high
           /\ Cardinality(C14_Sessions) + inj.count = inj.returned
           /\ pc \in {"inj_loop", "done"} =>
                 /\ inj.count = 0
                 /\ Len(all_events) - Len(SelectSeq(all_events, LAMBDA e : e.session_id = 0))
                       = inj.returned * Len(ScenarioList[1].events)

\* the range "1-3" gave 3 and the scenario was repeated three times
C14_Witness ==
    /\ mode = "frequency"
    /\ pc = "done"
    /\ inj.freq = <<"1", "-", "3">>
    /\ inj.returned = 3
    /\ Cardinality(C14_Sessions) = 3

\* the range "1-3" gave 2
C14_WitnessMiddle ==
    /\ mode = "frequency"
    /\ pc = "done"
    /\ inj.freq = <<"1", "-", "3">>
    /\ inj.returned = 2

\* the range "1-3" gave 1, and the number "03" gave 3
C14_WitnessLow ==
    /\ mode = "frequency"
    /\ pc = "done"
    /\ \/ inj.freq = <<"1", "-", "3">> /\ inj.returned = 1
       \/ inj.freq = <<"0", "3">> /\ inj.returned = 3

-----------------------------------------------------------------------------
(* Further properties of a backfill run (SpecBackfill) *)

\* the run has produced its output: printed it, or called bulk_load with it
C15_OutputMade ==
    /\ mode = "backfill"
    /\ \/ pc \in {"done", "bl_post", "bf_loaded"}
       \/ pc = "raised" /\ log.calls # <<>>

\* C15: the events a backfill run prints, or hands to bulk_load, are the whole
\* list, injected events included, in non-decreasing order of their times.
C15_OutputSorted ==
    C15_OutputMade =>
        /\ \A i \in 1 .. Len(all_events) - 1 :
              Strptime(all_events[i].timestamp) <= Strptime(all_events[i + 1].timestamp)
        /\ log.injected \subseteq {all_events[i].id : i \in DOMAIN all_events}
        /\ IF bf.load
           THEN log.calls = << EventIds(all_events) >> /\ stdout = <<>>
           ELSE stdout = [i \in DOMAIN all_events |-> JsonDumps(all_events[i])]

\* a finished run printed an injected event between two events of one synthesized
\* session, and a session of the second endpoint before the last event of the first
C15_Witness ==
    /\ mode = "backfill" /\ pc = "done" /\ ~bf.load
    /\ \E i, j, k \in DOMAIN stdout :
          /\ i < j /\ j < k
          /\ stdout[j].json.id \in log.injected
          /\ stdout[i].json.session_id = stdout[k].json.session_id
          /\ stdout[i].json.id \notin log.injected
    /\ \E i, k \in DOMAIN stdout :
          /\ i < k
          /\ stdout[i].json.endpoint_hostname = "dev-mbp-013"
          /\ stdout[k].json.endpoint_hostname = "dev-linux-012"
          /\ stdout[i].json.id > stdout[k].json.id

\* a step that is one repetition of a scenario without inject_at_hour
C16_IsRepetition ==
    /\ pc = "inj_rep"
    /\ inj'.count < inj.count
    /\ "inject_at_hour" \notin DOMAIN ScenarioList[inj.scenario]

\* what one repetition does to the list
C16_Appended ==
    LET tmpl == ScenarioList[inj.scenario].events
        n == Len(all_events)
    IN /\ Len(all_events') = n + Len(tmpl)
       /\ \A i \in 1 .. n : all_events'[i] = all_events[i]
       /\ \E e \in DOMAIN ENDPOINTS, a \in DOMAIN AGENTS :
             \A i \in DOMAIN tmpl :
                LET evt == all_events'[n + i]
                IN /\ evt.sequence = i
                   /\ evt.action_type = tmpl[i].action_type
                   /\ evt.tool_name = tmpl[i].tool_name
                   /\ evt.result_status = tmpl[i].result_status
                   /\ evt.endpoint_hostname = ENDPOINTS[e].hostname
                   /\ evt.endpoint_username = ENDPOINTS[e].username
                   /\ evt.agent_name = AGENTS[a].name
                   /\ evt.session_id = all_events'[n + 1].session_id
                   /\ \A j \in 1 .. n : all_events[j].session_id # evt.session_id

\* C16: each repetition of a templated scenario without a burst hour appends one
\* event per template, in template order, with sequences 1..k and the template's
\* action type, tool name and result status, all with one endpoint, one agent and
\* one fresh session id; the events already in the list stay as they are.
C16_TemplatedRepetition == [][C16_IsRepetition => C16_Appended]_vars

\* the second repetition of the two-template scenario has been appended behind an
\* event that was in the list before, for the second endpoint
C16_Witness ==
    /\ mode = "frequency"
    /\ inj.base = 1
    /\ inj.returned - inj.count = 2
    /\ Len(all_events) = 5
    /\ all_events[1] = ExistingEvents[1]
    /\ all_events[5].sequence = 2
    /\ all_events[5].endpoint_hostname = "dev-mbp-013"
    /\ all_events[5].session_id # all_events[3].session_id

\* a repetition of the scenario whose template is an error has been appended
C16_WitnessError ==
    /\ mode = "frequency"
    /\ inj.base = 2
    /\ Len(all_events) >= 1
    /\ all_events[Len(all_events)].result_status = "error"
    /\ all_events[Len(all_events)].sequence = 1

\* the calendar days the while loop of an endpoint visits: from the midnight before
\* start_date, day by day, while before end_date
C17_VisitedDays ==
    {d \in {ReplaceTime(bf.start_date, 0, 0, 0) + k * SecPerDay : k \in 0 .. bf.days + 1} :
        d < bf.end_date}

\* the days whose sessions an endpoint has been given in full
C17_DaysDone(e) ==
    IF e < bf.endpoint THEN C17_VisitedDays
    ELSE IF e = bf.endpoint /\ pc \in {"bf_day", "bf_session", "gs_start", "gs_loop", "bf_extend"}
         THEN {d \in C17_VisitedDays : d < bf.current_date}
         ELSE {}

\* C17: every endpoint gets at least one session for every calendar day the driver
\* visits and every session has at least 5 action events, so at least 7 events,
\* whatever the normal draws return.
C17_SessionFloor ==
    mode = "backfill" =>
        /\ \A e \in DOMAIN ENDPOINTS : \A d \in C17_DaysDone(e) :
              \E s \in log.sessions : s.endpoint = ENDPOINTS[e].hostname /\ s.day = d
        /\ \A s \in log.sessions : s.event_count >= 5
        /\ pc = "bf_extend" =>
              /\ gs.event_count >= 5
              /\ Len(events) >= 7
              /\ Cardinality({i \in DOMAIN events :
                                 events[i].action_type \notin {"session_start", "session_end"}})
                    >= 5

\* both endpoints have their sessions for the two days of a days = 1 run, one of
\* them from an event-count draw below 5
C17_Witness ==
    /\ mode = "backfill"
    /\ bf.days = 1
    /\ pc = "inj_loop"
    /\ Cardinality(C17_VisitedDays) = 2
    /\ \E s \in log.sessions : s.drawn[2] = 4 /\ s.event_count = 5
    /\ Cardinality(log.sessions) = 4

\* a day's session count came from a draw of 0
C17_WitnessDay ==
    /\ mode = "backfill"
    /\ pc = "bf_extend"
    /\ bf.drawn[1] = 0
    /\ bf.n_sessions = 1

-----------------------------------------------------------------------------
(* Further properties of generate_stream (SpecStream) *)

\* the events the stream loop has generated: buffered, printed or posted
C18_StreamEvents ==
    {st.buffer[i] : i \in DOMAIN st.buffer}
    \cup {stdout[i].json : i \in DOMAIN stdout}
    \cup UNION { {posts[p].body[k].json : k \in {j \in DOMAIN posts[p].body : j % 2 = 0}}
                 : p \in DOMAIN posts }

C18_OfIteration(sid) == {e \in C18_StreamEvents : e.session_id = sid}

\* the iteration that drew this session id has left its for loop
C18_Complete(sid) ==
    \/ sid # st.session_id
    \/ pc \in {"st_sleep", "st_flushed"}
    \/ st.seq = st.n_events

\* C18: every iteration of the stream loop emits between 1 and 3 events, all for
\* one endpoint, one agent and one fresh session id, with sequences 0..n-1 and
\* action types among the five configured ones.
C18_IterationShape ==
    mode = "stream" =>
        /\ st.total_streamed = Cardinality(C18_StreamEvents)
        /\ \A sid \in {e.session_id : e \in C18_StreamEvents} :
              LET evs == C18_OfIteration(sid)
              IN /\ Cardinality(evs) <= 3
                 /\ C18_Complete(sid) => Cardinality(evs) >= 1
                 /\ {e.sequence : e \in evs} = 0 .. Cardinality(evs) - 1
                 /\ \A e1, e2 \in evs :
                       /\ e1.endpoint_hostname = e2.endpoint_hostname
                       /\ e1.agent_name = e2.agent_name
                 /\ \A e \in evs :
                       e.action_type \in {ACTION_WEIGHTS[i] : i \in DOMAIN ACTION_WEIGHTS}
        /\ (pc \in {"st_sleep", "st_flushed"} /\ ~st.interrupted) =>
              Cardinality(C18_OfIteration(st.session_id)) = st.n_events

\* an iteration of three events has followed an iteration of one event
C18_Witness ==
    /\ mode = "stream"
    /\ pc = "st_sleep"
    /\ st.n_events = 3
    /\ Cardinality(C18_OfIteration(st.session_id)) = 3
    /\ \E sid \in {e.session_id : e \in C18_StreamEvents} :
          sid # st.session_id /\ Cardinality(C18_OfIteration(sid)) = 1

-----------------------------------------------------------------------------
(* The result status of a synthesized action event (SpecSession) *)

\* the action types whose templates carry no status of their own
C19_FreeTypes == {"file_read", "file_write", "tool_use", "notification"}

\* the statuses generate_event can give an event of this type without an override
C19_Statuses(action_type) == {p.result_status : p \in PickTemplate(action_type)}

\* C19: for the action types whose templates fix no status both success and error
\* are possible outcomes of a synthesized event, and an event whose status is error
\* carries a message of the fixed pool.
C19_StatusDraw ==
    /\ \A t \in C19_FreeTypes : C19_Statuses(t) = {"success", "error"}
    /\ mode = "session" =>
          \A i \in DOMAIN events :
             events[i].result_status = "error" => events[i].error_message \in ERROR_MESSAGES

\* a session holds a file_read event, whose status is success, behind a
\* command_exec event whose status is error and which carries a message
C19_Witness ==
    /\ mode = "session"
    /\ \E i, j \in DOMAIN events :
          /\ i < j
          /\ events[i].action_type = "command_exec"
          /\ events[i].result_status = "error"
          /\ events[i].error_message \in ERROR_MESSAGES
          /\ events[j].action_type = "file_read"
          /\ events[j].result_status = "success"

-----------------------------------------------------------------------------
(* Both drivers *)

InitOutput == InitBackfill \/ InitStream

NextOutput == NextBackfill \/ NextStream

SpecOutput == InitOutput /\ [][NextOutput]_vars

\* the ids of the events handed to bulk_load, over all its calls
C20_Handed == UNION { {log.calls[c][i] : i \in DOMAIN log.calls[c]} : c \in DOMAIN log.calls }

\* the ids of the printed events, line by line
C20_Printed == [i \in DOMAIN stdout |-> stdout[i].json.id]

\* C20: with load off every event is printed as one line and no bulk request is
\* made; with load on nothing is printed and every event is handed to bulk_load.
C20_OneSink ==
    /\ (mode = "backfill" /\ ~bf.load) =>
          /\ posts = <<>> /\ log.calls = <<>>
          /\ pc = "done" => C20_Printed = EventIds(all_events)
          /\ pc # "done" => stdout = <<>>
    /\ (mode = "backfill" /\ bf.load) =>
          /\ stdout = <<>>
          /\ pc = "done" => log.calls = << EventIds(all_events) >>
    /\ (mode = "stream" /\ ~st.load) =>
          /\ posts = <<>> /\ log.calls = <<>> /\ st.buffer = <<>>
          /\ Len(stdout) = st.total_streamed
          /\ \A i, j \in DOMAIN stdout : C20_Printed[i] = C20_Printed[j] => i = j
    /\ (mode = "stream" /\ st.load) =>
          /\ stdout = <<>>
          /\ Cardinality(C20_Handed \cup {st.buffer[i].id : i \in DOMAIN st.buffer})
                = st.total_streamed
          /\ pc = "done" => Cardinality(C20_Handed) = st.total_streamed

\* a stream with load on has ended after a periodic flush and a flush at the
\* interrupt, with nothing printed
C20_Witness ==
    /\ mode = "stream" /\ st.load /\ pc = "done"
    /\ Len(log.calls) >= 2
    /\ st.total_streamed >= 3
    /\ stdout = <<>>

\* a stream with load off has printed three events, and a backfill run with load
\* off has printed its list
C20_WitnessPrinted ==
    \/ mode = "stream" /\ ~st.load /\ pc = "done" /\ Len(stdout) >= 3
    \/ mode = "backfill" /\ ~bf.load /\ pc = "done" /\ Len(stdout) >= 14

-----------------------------------------------------------------------------
(* The scenario configuration during a backfill run (SpecBackfill) *)

\* the injected events of the list
C21_Injected == {i \in DOMAIN all_events : all_events[i].id \in log.injected}

\* C21: injection, the silence pass and the error-rate pass leave SCENARIOS and its
\* templates as they were written (the payloads keep the {user} placeholder and
\* their exit_code): the payload of every event is a dict of its own, so what is
\* written into an event does not reach a template.
C21_ScenariosReadOnly ==
    /\ scenarios = SCENARIOS
    /\ aliases = {}
    /\ scenarios[1].events[1].payload.path[2] = UserPlaceholder
    /\ scenarios[1].events[2].payload.exit_code = 0

\* a finished run holds an injected event whose path names the user of its
\* endpoint and an injected event, built from a template with exit_code 0, that
\* the error-rate pass has set to error with exit_code 1
C21_Witness ==
    /\ mode = "backfill"
    /\ pc = "done"
    /\ \E i, j \in C21_Injected :
          /\ all_events[i].payload.path = <<"/Users/", "ltaylor", "/project/.env.production">>
          /\ all_events[j].id \in log.flipped
          /\ all_events[j].payload.command = SCENARIOS[1].events[2].payload.command
          /\ all_events[j].payload.exit_code = 1
          /\ all_events[j].result_status = "error"

-----------------------------------------------------------------------------
(* The burst scenario (SpecBackfill) *)

\* a step that is one repetition of a scenario with inject_at_hour
C22_IsBurst ==
    /\ pc = "inj_rep"
    /\ inj'.count < inj.count
    /\ "inject_at_hour" \in DOMAIN ScenarioList[inj.scenario]

\* the number of events of a burst: event_count, or the number of templates
C22_Count(sc) == IF "event_count" \in DOMAIN sc THEN sc.event_count ELSE Len(sc.events)

\* what one burst appends, up to the times of its events
C22_Appended ==
    LET sc == ScenarioList[inj.scenario]
        n == Len(all_events)
    IN /\ Len(all_events') = n + C22_Count(sc)
       /\ \A i \in 1 .. n : all_events'[i] = all_events[i]
       /\ \E e \in DOMAIN ENDPOINTS, a \in DOMAIN AGENTS :
             \A i \in 1 .. C22_Count(sc) :
                LET evt == all_events'[n + i]
                IN /\ evt.endpoint_hostname = ENDPOINTS[e].hostname
                   /\ evt.agent_name = AGENTS[a].name
                   /\ evt.session_id = all_events'[n + 1].session_id
                   /\ \E k \in DOMAIN sc.events :
                         /\ evt.action_type = sc.events[k].action_type
                         /\ evt.tool_name = sc.events[k].tool_name
                         /\ evt.result_status = sc.events[k].result_status
                         /\ evt.payload.keys = sc.events[k].payload.keys

\* every event of the burst is at the configured hour of day
C22_AtHour ==
    LET sc == ScenarioList[inj.scenario]
    IN \A i \in Len(all_events) + 1 .. Len(all_events') :
          all_events'[i].timestamp[3] = sc.inject_at_hour

\* the burst without the statement about the hour
C22_BurstUpToHour == [][C22_IsBurst => C22_Appended]_vars

\* C22: each repetition of a burst scenario appends exactly event_count events
\* (the number of templates when there is no event_count) with one session id,
\* endpoint and agent, each built from one of the scenario's templates, and every
\* event of the burst has its timestamp at the configured hour of day.
C22_BurstShape == [][C22_IsBurst => (C22_Appended /\ C22_AtHour)]_vars

\* the burst started at 02:59:59 and its second event is at 03:00:02
C22_Witness ==
    /\ mode = "backfill"
    /\ \E i, j \in C21_Injected :
          /\ all_events[i].session_id = all_events[j].session_id
          /\ all_events[i].timestamp[3] = SCENARIOS[3].inject_at_hour
          /\ all_events[i].timestamp[4] = 59
          /\ all_events[j].timestamp[3] = SCENARIOS[3].inject_at_hour + 1
          /\ all_events[j].sequence = 2

-----------------------------------------------------------------------------
(* scripts/build-dashboards.py *)

INDEX_PATTERN_ID == "gryph-events-*"

\* the search_source argument of saved_visualization: absent, or a dict with "index"
NoSearchSource == [given |-> FALSE, index |-> ""]

SearchSource(index) == [given |-> TRUE, index |-> index]

\* the "references" entry of a visualization and of a search
IndexReference(index_pattern_id) ==
    [name |-> "kibanaSavedObjectMeta.searchSourceJSON.index", type |-> "index-pattern",
     id |-> index_pattern_id]

\* saved_visualization(vid, title, vis_state_json, index_pattern_id, search_source)
SavedVisualization(vid, index_pattern_id, search_source) ==
    [id |-> vid,
     type |-> "visualization",
     searchSourceJSON |-> JsonDumps([index |-> IF search_source.given THEN search_source.index
                                                ELSE index_pattern_id]),
     references |-> << IndexReference(index_pattern_id) >>]

\* saved_search(sid, title, index_pattern_id, columns, query_filter)
SavedSearch(sid, index_pattern_id) ==
    [id |-> sid,
     type |-> "search",
     searchSourceJSON |-> JsonDumps([index |-> index_pattern_id]),
     references |-> << IndexReference(index_pattern_id) >>]

\* reference names counted from 1
RefNameFromOne(i) == <<"panel_", i + 1>>

\* ref_name = f"panel_{i}"
RefName(i) == <<"panel_", i>>

\* saved_dashboard: the entries one iteration of `for i, (..) in enumerate(panels)`
\* appends to panels_json and to references
PanelJson(i) == [panelIndex |-> i, panelRefName |-> RefName(i)]

PanelReference(i, panel) == [name |-> RefName(i), type |-> panel[2], id |-> panel[1]]

\* saved_dashboard: the returned dict
SavedDashboard(did, panels_json, references) ==
    [id |-> did,
     type |-> "dashboard",
     panelsJSON |-> JsonDumps(panels_json),
     references |-> references]

\* the four build functions in the order the script calls them: per function the
\* id of its dashboard, its file, and its pairs of statements
\* objects.append(saved_..(id, ..)); panels.append((id, panel_type, ..))
BUILDS ==
    <<
       [name |-> "build_soc_overview", did |-> "soc-overview", file |-> "soc-overview.ndjson",
        items |-> <<
            [make |-> "saved_visualization", id |-> "soc-total-events",
             search_source |-> NoSearchSource, panel_type |-> "visualization"],
            [make |-> "saved_visualization", id |-> "soc-active-endpoints",
             search_source |-> NoSearchSource, panel_type |-> "visualization"],
            [make |-> "saved_visualization", id |-> "soc-active-sessions",
             search_source |-> NoSearchSource, panel_type |-> "visualization"],
            [make |-> "saved_visualization", id |-> "soc-error-count",
             search_source |-> SearchSource(INDEX_PATTERN_ID), panel_type |-> "visualization"],
            [make |-> "saved_visualization", id |-> "soc-events-over-time",
             search_source |-> NoSearchSource, panel_type |-> "visualization"],
            [make |-> "saved_visualization", id |-> "soc-action-breakdown",
             search_source |-> NoSearchSource, panel_type |-> "visualization"],
            [make |-> "saved_visualization", id |-> "soc-agent-distribution",
             search_source |-> NoSearchSource, panel_type |-> "visualization"],
            [make |-> "saved_visualization", id |-> "soc-top-endpoints",
             search_source |-> NoSearchSource, panel_type |-> "visualization"],
            [make |-> "saved_search", id |-> "soc-recent-errors",
             search_source |-> NoSearchSource, panel_type |-> "search"],
            [make |-> "saved_visualization", id |-> "soc-commands-over-time",
             search_source |-> SearchSource(INDEX_PATTERN_ID), panel_type |-> "visualization"] >>],
       [name |-> "build_threat_detection", did |-> "threat-detection", file |-> "threat-detection.ndjson",
        items |-> <<
            [make |-> "saved_visualization", id |-> "threat-summary",
             search_source |-> NoSearchSource, panel_type |-> "visualization"],
            [make |-> "saved_search", id |-> "threat-suspicious-commands",
             search_source |-> NoSearchSource, panel_type |-> "search"],
            [make |-> "saved_search", id |-> "threat-sensitive-files",
             search_source |-> NoSearchSource, panel_type |-> "search"],
            [make |-> "saved_search", id |-> "threat-package-installs",
             search_source |-> NoSearchSource, panel_type |-> "search"],
            [make |-> "saved_search", id |-> "threat-network-exfil",
             search_source |-> NoSearchSource, panel_type |-> "search"],
            [make |-> "saved_search", id |-> "threat-ci-modifications",
             search_source |-> NoSearchSource, panel_type |-> "search"],
            [make |-> "saved_visualization", id |-> "threat-after-hours",
             search_source |-> NoSearchSource, panel_type |-> "visualization"],
            [make |-> "saved_search", id |-> "threat-sensitive-tools",
             search_source |-> NoSearchSource, panel_type |-> "search"],
            [make |-> "saved_visualization", id |-> "threat-failed-commands",
             search_source |-> SearchSource(INDEX_PATTERN_ID), panel_type |-> "visualization"] >>],
       [name |-> "build_agent_activity", did |-> "agent-activity", file |-> "agent-activity.ndjson",
        items |-> <<
            [make |-> "saved_visualization", id |-> "agent-sessions-pie",
             search_source |-> NoSearchSource, panel_type |-> "visualization"],
            [make |-> "saved_visualization", id |-> "agent-tool-usage",
             search_source |-> NoSearchSource, panel_type |-> "visualization"],
            [make |-> "saved_visualization", id |-> "agent-file-writes-repo",
             search_source |-> SearchSource(INDEX_PATTERN_ID), panel_type |-> "visualization"],
            [make |-> "saved_visualization", id |-> "agent-commands-by-agent",
             search_source |-> SearchSource(INDEX_PATTERN_ID), panel_type |-> "visualization"],
            [make |-> "saved_visualization", id |-> "agent-most-modified",
             search_source |-> SearchSource(INDEX_PATTERN_ID), panel_type |-> "visualization"],
            [make |-> "saved_visualization", id |-> "agent-mcp-tools",
             search_source |-> SearchSource(INDEX_PATTERN_ID), panel_type |-> "visualization"],
            [make |-> "saved_visualization", id |-> "agent-heatmap",
             search_source |-> NoSearchSource, panel_type |-> "visualization"],
            [make |-> "saved_visualization", id |-> "agent-events-over-time",
             search_source |-> NoSearchSource, panel_type |-> "visualization"] >>],
       [name |-> "build_endpoint_health", did |-> "endpoint-health", file |-> "endpoint-health.ndjson",
        items |-> <<
            [make |-> "saved_visualization", id |-> "health-reporting-endpoints",
             search_source |-> NoSearchSource, panel_type |-> "visualization"],
            [make |-> "saved_visualization", id |-> "health-total-endpoints",
             search_source |-> NoSearchSource, panel_type |-> "visualization"],
            [make |-> "saved_visualization", id |-> "health-unique-agents",
             search_source |-> NoSearchSource, panel_type |-> "visualization"],
            [make |-> "saved_visualization", id |-> "health-last-seen",
             search_source |-> NoSearchSource, panel_type |-> "visualization"],
            [make |-> "saved_visualization", id |-> "health-events-per-endpoint",
             search_source |-> NoSearchSource, panel_type |-> "visualization"],
            [make |-> "saved_visualization", id |-> "health-agent-coverage",
             search_source |-> NoSearchSource, panel_type |-> "visualization"],
            [make |-> "saved_visualization", id |-> "health-export-gaps",
             search_source |-> NoSearchSource, panel_type |-> "visualization"],
            [make |-> "saved_visualization", id |-> "health-error-rate",
             search_source |-> SearchSource(INDEX_PATTERN_ID), panel_type |-> "visualization"] >>] >>

\* a line left in a file by an earlier run of the script
StaleLine == JsonDumps(SavedDashboard("stale", <<>>, <<>>))

\* the variables of the generator: the script does not touch them
generator ==
    <<budget, uuid, gs, events, bf, all_events, inj, log, stdout, bl, posts, st, scenarios,
      aliases>>

\* objects.append(saved_visualization(..)) or objects.append(saved_search(..))
DbObject ==
    /\ pc = "db_object"
    /\ LET item == BUILDS[db.fn].items[db.step]
       IN db' = [db EXCEPT !.objects =
                    Append(@, IF item.make = "saved_visualization"
                              THEN SavedVisualization(item.id, INDEX_PATTERN_ID,
                                                      item.search_source)
                              ELSE SavedSearch(item.id, INDEX_PATTERN_ID))]
    /\ pc' = "db_panel"
    /\ UNCHANGED <<mode, generator, files>>

\* panels.append((id, panel_type, title, grid)); after the last pair the call of
\* saved_dashboard begins
DbPanel ==
    /\ pc = "db_panel"
    /\ LET item == BUILDS[db.fn].items[db.step]
       IN db' = [db EXCEPT !.panels = Append(@, <<item.id, item.panel_type>>),
                           !.step = @ + 1,
                           !.i = 0, !.panels_json = <<>>, !.references = <<>>]
    /\ pc' = IF db.step < Len(BUILDS[db.fn].items) THEN "db_object" ELSE "db_dashboard"
    /\ UNCHANGED <<mode, generator, files>>

\* saved_dashboard: one iteration of the loop over enumerate(panels)
DbDashboardPanel ==
    /\ pc = "db_dashboard"
    /\ db.i < Len(db.panels)
    /\ db' = [db EXCEPT !.panels_json = Append(@, PanelJson(db.i)),
                        !.references = Append(@, PanelReference(db.i, db.panels[db.i + 1])),
                        !.i = @ + 1]
    /\ UNCHANGED <<mode, pc, generator, files>>

\* saved_dashboard returns; objects.append(dashboard); write_ndjson opens the file
\* for writing
DbDashboard ==
    /\ pc = "db_dashboard"
    /\ db.i = Len(db.panels)
    /\ db' = [db EXCEPT !.objects = Append(@, SavedDashboard(BUILDS[db.fn].did, db.panels_json,
                                                             db.references)),
                        !.written = 0]
    /\ files' = [files EXCEPT ![BUILDS[db.fn].file] = <<>>]
    /\ pc' = "db_write"
    /\ UNCHANGED <<mode, generator>>

\* write_ndjson: f.write(json.dumps(obj, ..) + "\n") for one object
DbWriteLine ==
    /\ pc = "db_write"
    /\ db.written < Len(db.objects)
    /\ files' = [files EXCEPT ![BUILDS[db.fn].file] = Append(@, JsonDumps(db.objects[db.written + 1]))]
    /\ db' = [db EXCEPT !.written = @ + 1]
    /\ UNCHANGED <<mode, pc, generator>>

\* the file is closed and the build function returns: the next one starts with
\* objects = [] and panels = []
DbWritten ==
    /\ pc = "db_write"
    /\ db.written = Len(db.objects)
    /\ db' = [NoBuild EXCEPT !.fn = db.fn + 1]
    /\ pc' = IF db.fn < Len(BUILDS) THEN "db_object" ELSE "done"
    /\ UNCHANGED <<mode, generator, files>>

InitDashboards ==
    /\ mode = "dashboards"
    /\ pc = "db_object"
    /\ budget = 0
    /\ uuid = 1
    /\ gs = NoSession
    /\ events = <<>>
    /\ bf = NoBackfill
    /\ all_events = <<>>
    /\ inj = NoInject
    /\ log = NoLog
    /\ stdout = <<>>
    /\ bl = NoBulk
    /\ posts = <<>>
    /\ st = NoStream
    /\ scenarios = SCENARIOS
    /\ aliases = {}
    /\ db = NoBuild
    /\ files \in {NoFiles, [f \in DashboardFiles |-> << StaleLine >>]}

NextDashboards ==
    DbObject \/ DbPanel \/ DbDashboardPanel \/ DbDashboard \/ DbWriteLine \/ DbWritten

SpecDashboards == InitDashboards /\ [][NextDashboards]_vars

-----------------------------------------------------------------------------
(* Properties of the dashboard files (SpecDashboards) *)

\* the build functions whose file has been written and closed
C23_Written == {b \in DOMAIN BUILDS : b < db.fn}

\* the objects of a file, line by line
C23_Objects(b) ==
    [k \in DOMAIN files[BUILDS[b].file] |-> files[BUILDS[b].file][k].json]

\* C23: in each dashboard file the dashboard record is the last object written; it
\* has exactly one reference panel_i per panel, i = 0 .. k-1, equal to the
\* panelRefName of the i-th panel; the id and type of each reference are those of
\* a visualization or search record written earlier in the same file; and every
\* visualization and search record references the index pattern gryph-events-*.
C23_DashboardClosure ==
    mode = "dashboards" =>
        /\ pc = "done" => C23_Written = 1 .. 4
        /\ \A b \in C23_Written :
              LET objs == C23_Objects(b)
                  n == Len(objs)
                  d == objs[n]
                  panels == d.panelsJSON.json
              IN /\ n >= 1
                 /\ d.type = "dashboard"
                 /\ \A j \in 1 .. n - 1 :
                       /\ objs[j].type \in {"visualization", "search"}
                       /\ \E r \in DOMAIN objs[j].references :
                             /\ objs[j].references[r].type = "index-pattern"
                             /\ objs[j].references[r].id = "gryph-events-*"
                 /\ Len(d.references) = Len(panels)
                 /\ \A i \in DOMAIN panels :
                       /\ d.references[i].name = <<"panel_", i - 1>>
                       /\ panels[i].panelRefName = d.references[i].name
                       /\ d.references[i].type \in {"visualization", "search"}
                       /\ \E j \in 1 .. n - 1 :
                             /\ objs[j].id = d.references[i].id
                             /\ objs[j].type = d.references[i].type

\* the script has ended over the files of an earlier run: the four files hold 11,
\* 10, 9 and 9 objects, and one of them a search record between visualizations
C23_Witness ==
    /\ mode = "dashboards"
    /\ pc = "done"
    /\ [b \in DOMAIN BUILDS |-> Len(C23_Objects(b))] = <<11, 10, 9, 9>>
    /\ C23_Objects(1)[9].type = "search"
    /\ C23_Objects(1)[11].references[9].type = "search"
    /\ C23_Objects(1)[11].references[10].name = <<"panel_", 9>>

-----------------------------------------------------------------------------
(* The periodic flush of generate_stream (SpecStream) *)

\* the ids of the events of the c-th call of bulk_load
C24_Handed(c) == {log.calls[c][i] : i \in DOMAIN log.calls[c]}

\* the calls made by the loop itself
C24_PeriodicCalls == 1 .. (IF st.interrupted THEN st.calls_before ELSE Len(log.calls))

C24_BufferIds == {st.buffer[i].id : i \in DOMAIN st.buffer}

\* a periodic flush has been started and `buffer = []` has not been reached
C24_Flushing == pc \in {"bl_post", "st_flushed", "raised"}

C24_State ==
    (mode = "stream" /\ st.load) =>
        /\ \A c \in C24_PeriodicCalls : log.calls[c] # <<>>
        /\ \A c, d \in C24_PeriodicCalls : c # d => C24_Handed(c) \cap C24_Handed(d) = {}
        /\ (~st.interrupted /\ ~C24_Flushing) =>
              \A c \in C24_PeriodicCalls : C24_Handed(c) \cap C24_BufferIds = {}
        /\ (~st.interrupted /\ C24_Flushing) =>
              /\ log.calls[Len(log.calls)] = EventIds(st.buffer)
              /\ \A c \in 1 .. Len(log.calls) - 1 : C24_Handed(c) \cap C24_BufferIds = {}

C24_Step ==
    (mode = "stream" /\ ~st'.interrupted) =>
        /\ Len(log.calls') > Len(log.calls) =>
              /\ st.load
              /\ st.clock - st.last_flush >= 5
              /\ pc = "st_gen" /\ st.seq = st.n_events
              /\ st.buffer # <<>>
              /\ log.calls' = Append(log.calls, EventIds(st.buffer))
        /\ st'.last_flush # st.last_flush =>
              /\ st.clock - st.last_flush >= 5
              /\ st'.last_flush = st.clock
              /\ st'.buffer = <<>>
              /\ pc' = "st_sleep"
        /\ pc = "st_flushed" => (st'.buffer = <<>> /\ st'.last_flush = st.clock)

\* C24: with load on, a periodic flush is started at the end of an iteration only
\* when 5 seconds or more have passed since the last flush; it hands the whole
\* buffer to one call of bulk_load, after which the buffer is empty and the timer is
\* reset, so that no event of a periodic flush is in the buffer of a later one.
C24_PeriodicFlush == []C24_State /\ [][C24_Step]_vars

\* the loop has made two periodic flushes, 5 seconds apart, and no flush at the end
\* of its first iteration
C24_Witness ==
    /\ mode = "stream" /\ st.load /\ ~st.interrupted
    /\ pc = "st_sleep"
    /\ Len(log.calls) = 2
    /\ st.clock = 10
    /\ st.last_flush = 10
    /\ st.buffer = <<>>
    /\ Len(log.calls[1]) >= 2

\* with a sleep of one second three iterations pass without a flush
C24_WitnessNoFlush ==
    /\ mode = "stream" /\ st.load /\ ~st.interrupted
    /\ st.iterations = MaxIterations
    /\ st.sleep = 1
    /\ log.calls = <<>>
    /\ Len(st.buffer) >= 3

-----------------------------------------------------------------------------
(* The interrupt and the periodic flush (SpecStream) *)

\* the ids of the documents of the p-th request
C25_Posted(p) == {posts[p].body[k].json.id : k \in {j \in DOMAIN posts[p].body : j % 2 = 0}}

\* C25: with load on and the interrupt arriving at any point of the loop, no event
\* is handed to bulk_load in two calls and no event is sent in two requests.
C25_SubmittedOnce ==
    (mode = "stream" /\ st.load) =>
        /\ \A c, d \in DOMAIN log.calls : c # d => C24_Handed(c) \cap C24_Handed(d) = {}
        /\ \A p, q \in DOMAIN posts : p # q => C25_Posted(p) \cap C25_Posted(q) = {}

\* the interrupt came after the first request of a periodic flush: the except
\* clause has handed the same buffer to bulk_load again and the driver has exited
\* with an event sent twice
C25_Witness ==
    /\ mode = "stream" /\ st.load /\ st.interrupted
    /\ pc = "done"
    /\ st.calls_before >= 1
    /\ log.calls[st.calls_before] = log.calls[st.calls_before + 1]
    /\ \E p \in 1 .. st.posts_before : \E q \in st.posts_before + 1 .. Len(posts) :
          C25_Posted(p) \cap C25_Posted(q) # {}

\* the interrupt came after bulk_load had returned and before `buffer = []`
C25_WitnessReturned ==
    /\ mode = "stream" /\ st.load /\ st.interrupted
    /\ pc = "done"
    /\ Len(posts) = 2
    /\ posts[1].body = posts[2].body
    /\ st.posts_before = 1

-----------------------------------------------------------------------------
(* A stream that runs until it is interrupted *)

\* the process keeps running while it has a step to take, and a run ends only by
\* the interrupt: `while True` has no other exit
SpecStreamLive == SpecStream /\ WF_vars(NextStream)

\* the ids uuid4() can hand out within MaxIterations iterations
C26_Ids == 1 .. MaxIterations * 4 + 1

\* the ids of the documents sent so far
C26_PostedIds == UNION {C25_Posted(p) : p \in DOMAIN posts}

C26_AtExit ==
    (mode = "stream" /\ st.load /\ pc = "done") =>
        /\ Cardinality(C26_PostedIds) = st.total_streamed
        /\ C24_BufferIds \subseteq C26_PostedIds

\* C26: with load on and no failing request, every event put into the buffer is
\* sent to the bulk endpoint in the end, by a periodic flush or by the flush at the
\* interrupt; when the driver has exited every generated event has been sent.
C26_NothingDropped ==
    /\ []C26_AtExit
    /\ \A id \in C26_Ids :
          (mode = "stream" /\ id \in C24_BufferIds) ~> (id \in C26_PostedIds \/ pc = "raised")

\* the driver has exited after one periodic flush and a flush at the interrupt of
\* events generated since; every request succeeded
C26_Witness ==
    /\ mode = "stream" /\ st.load /\ pc = "done"
    /\ st.calls_before = 1
    /\ Len(log.calls) = 2
    /\ log.calls[1] # log.calls[2]
    /\ log.warned = {} /\ log.failed = 0
    /\ st.total_streamed >= 4
    /\ Cardinality(C26_PostedIds) = st.total_streamed

-----------------------------------------------------------------------------
(* inject_threat_scenarios applied directly to a list of events *)

\* non-default random draws of one call
InjectDraws == 2

\* --days of the window the call is given: 3, for which the silent window opens
\* at end_date, and the default
InjectDays == {SILENT_ENDPOINT.silent_start_hour_offset \div 24, DefaultDays}

\* events the list holds before the call: two of the silence target, one second
\* before the silent window and five seconds into it, and one of the other
\* endpoint inside it
InjectExisting(start_date) ==
    LET ss == SilentStart(SILENT_ENDPOINT, start_date)
    IN << GenerateEvent(ENDPOINTS[2], AGENTS[1], 0, 1, ss - 1, "file_read", DefaultPick,
                        DefaultMessage, 1),
          GenerateEvent(ENDPOINTS[2], AGENTS[1], 0, 2, ss + 5, "file_read", DefaultPick,
                        DefaultMessage, 2),
          GenerateEvent(ENDPOINTS[1], AGENTS[1], 0, 3, ss + 5, "file_read", DefaultPick,
                        DefaultMessage, 3) >>

InitInject ==
    /\ mode = "inject"
    /\ pc = "inj_loop"
    /\ budget = InjectDraws
    /\ uuid = 4
    /\ scenarios = SCENARIOS
    /\ aliases = {}
    /\ db = NoBuild
    /\ files = NoFiles
    /\ gs = NoSession
    /\ events = <<>>
    /\ bf = NoBackfill
    /\ \E days \in InjectDays, end_date \in EndDates :
         /\ inj = [NoInject EXCEPT !.end_date = end_date,
                                   !.start_date = end_date - days * SecPerDay]
         /\ all_events \in {<<>>, InjectExisting(end_date - days * SecPerDay)}
    /\ log = NoLog
    /\ stdout = <<>>
    /\ bl = NoBulk
    /\ posts = <<>>
    /\ st = NoStream

NextInject ==
    InjSilent \/ InjError \/ InjEnter \/ InjScatter \/ InjBurst \/ InjRepDone \/ InjReturn

SpecInject == InitInject /\ [][NextInject]_vars

\* a backfill run, or the injection pass alone
InitBackfillInject == InitBackfill \/ InitInject

\* the steps of the injection pass are among the steps of a run
NextBackfillInject == NextBackfill

SpecBackfillInject == InitBackfillInject /\ [][NextBackfillInject]_vars

-----------------------------------------------------------------------------
(* The silent window in the emitted list (SpecBackfillInject) *)

\* the place of the silence scenario in the list
C27_SilentIndex == CHOOSE k \in DOMAIN SCENARIOS : SCENARIOS[k].name = "silent_endpoint"

C27_StartDate == IF mode = "backfill" THEN bf.end_date - bf.days * SecPerDay ELSE inj.start_date

C27_InWindow(e) ==
    /\ e.endpoint_hostname = "dev-mbp-013"
    /\ C27_StartDate + 72 * SecPerHour <= Strptime(e.timestamp)
    /\ Strptime(e.timestamp) <= C27_StartDate + 80 * SecPerHour

\* the loop over the scenarios has passed the silence scenario
C27_SilenceDone == mode \in {"backfill", "inject"} /\ inj.scenario > C27_SilentIndex

\* C27: once the silence scenario has been processed, and so in everything the
\* run emits, no event of dev-mbp-013 has its timestamp in
\* [start_date + 72h, start_date + 80h], injected events included.
C27_SilentWindowEmpty ==
    /\ C27_SilenceDone => \A i \in DOMAIN all_events : ~C27_InWindow(all_events[i])
    /\ mode = "backfill" => \A e \in Emitted : ~C27_InWindow(e)

\* the pass has removed an injected event and an event that was in the list
\* before, and has kept the event of the other endpoint inside the window
C27_Witness ==
    /\ mode = "inject"
    /\ pc = "done"
    /\ log.removed \cap log.injected # {}
    /\ 2 \in log.removed
    /\ \E i \in DOMAIN all_events : all_events[i].id = 3
    /\ \E i \in DOMAIN all_events : all_events[i].id = 1

\* a finished backfill run of 3 days from which the pass has removed events of
\* synthesized sessions
C27_WitnessBackfill ==
    /\ mode = "backfill"
    /\ pc = "done"
    /\ bf.days = 3
    /\ Cardinality(log.removed) >= 2
    /\ \E e \in Emitted : e.endpoint_hostname = "dev-mbp-013"

-----------------------------------------------------------------------------
(* The emitted list as a whole (SpecBackfill) *)

\* what identifies an event and places it in its session and in time
C28_Key(e) == <<e.id, e.session_id, e.sequence, e.timestamp>>

\* the list as it was when the silence pass began: the synthesized sessions and
\* the injected events
C28_Built == log.before

C28_Kept == {k \in DOMAIN C28_Built : C28_Built[k].id \notin log.removed}

\* C28: the emitted list holds exactly the synthesized session events and the
\* injected events, less those removed by the silence pass, each once; the
\* error-rate pass and the sort add, drop and duplicate nothing and leave the id,
\* session id, sequence number and timestamp of every event as they were.
C28_ListAccount ==
    C15_OutputMade =>
        /\ \A k \in DOMAIN C28_Built :
              \/ C28_Built[k].id \in log.injected
              \/ \E s \in log.sessions : s.session_id = C28_Built[k].session_id
        /\ \A s \in log.sessions :
              Cardinality({k \in DOMAIN C28_Built : /\ C28_Built[k].session_id = s.session_id
                                                    /\ C28_Built[k].id \notin log.injected})
                 = s.event_count + 2
        /\ log.injected \subseteq {C28_Built[k].id : k \in DOMAIN C28_Built}
        /\ \A j, k \in DOMAIN C28_Built : C28_Built[j].id = C28_Built[k].id => j = k
        /\ Len(all_events) = Cardinality(C28_Kept)
        /\ \A i, j \in DOMAIN all_events : all_events[i].id = all_events[j].id => i = j
        /\ {C28_Key(all_events[i]) : i \in DOMAIN all_events}
              = {C28_Key(C28_Built[k]) : k \in C28_Kept}
        /\ \A i \in DOMAIN all_events : \A k \in C28_Kept :
              C28_Built[k].id = all_events[i].id =>
                 \/ all_events[i] = C28_Built[k]
                 \/ /\ all_events[i].id \in log.flipped
                    /\ all_events[i] = [C28_Built[k] EXCEPT
                                           !.result_status = all_events[i].result_status,
                                           !.payload.exit_code = all_events[i].payload.exit_code]
        /\ Emitted \subseteq {all_events[i] : i \in DOMAIN all_events}
        /\ pc = "done" => Emitted = {all_events[i] : i \in DOMAIN all_events}

\* a finished run of 3 days: the silence pass removed events, the error-rate pass
\* flipped one, and the sort moved events that carry the same timestamp
C28_Witness ==
    /\ mode = "backfill"
    /\ pc = "done"
    /\ log.removed # {}
    /\ log.flipped # {}
    /\ log.injected # {}
    /\ \E i \in 1 .. Len(all_events) - 1 : all_events[i].timestamp = all_events[i + 1].timestamp
    /\ \E i \in DOMAIN all_events :
          all_events[i].id \in log.flipped /\ all_events[i].result_status = "error"

-----------------------------------------------------------------------------
(* result_status and exit_code (SpecBackfill) *)

C29_Consistent(e) ==
    "exit_code" \in e.payload.keys =>
        (e.result_status = "error" <=> e.payload.exit_code # 0)

\* C29: in every event of a backfill run whose payload has an exit_code, as it is
\* built, held in the list and emitted, result_status is "error" exactly when
\* exit_code is not 0: events built from command templates, events injected from
\* the scenario templates and events changed by the error-rate pass alike.
C29_StatusMatchesExitCode ==
    mode = "backfill" =>
        /\ \A i \in DOMAIN events : C29_Consistent(events[i])
        /\ \A i \in DOMAIN all_events : C29_Consistent(all_events[i])
        /\ \A e \in Emitted : C29_Consistent(e)

\* a finished run emitted a command event that the error-rate pass turned from
\* success with exit_code 0 into error with exit_code 1, an injected event of the
\* reverse-shell template (error, exit_code 1) and a successful command event
C29_Witness ==
    /\ mode = "backfill"
    /\ pc = "done"
    /\ \E e \in Emitted : \E k \in DOMAIN log.before :
          /\ e.id \in log.flipped
          /\ log.before[k].id = e.id
          /\ "exit_code" \in e.payload.keys
          /\ log.before[k].result_status = "success"
          /\ log.before[k].payload.exit_code = 0
          /\ e.result_status = "error"
          /\ e.payload.exit_code = 1
    /\ \E e \in Emitted :
          /\ e.id \in log.injected
          /\ e.payload.command = SCENARIOS[2].events[1].payload.command
          /\ e.result_status = "error"
          /\ e.payload.exit_code = 1
    /\ \E e \in Emitted :
          /\ "exit_code" \in e.payload.keys
          /\ e.result_status = "success"
          /\ e.payload.exit_code = 0

\* a finished run emitted a synthesized command event whose template has exit_code 1
C29_WitnessTemplate ==
    /\ mode = "backfill"
    /\ pc = "done"
    /\ \E e \in Emitted :
          /\ e.id \notin log.injected
          /\ e.id \notin log.flipped
          /\ e.action_type = "command_exec"
          /\ e.result_status = "error"
          /\ e.payload.exit_code = 1

-----------------------------------------------------------------------------
(* Completion of a backfill run (SpecBackfill) *)

\* the run has raised out of the synthesis or the injection, not out of a request
\* of the bulk loader
C30_RaisedBeforeOutput ==
    /\ mode = "backfill"
    /\ pc = "raised"
    /\ posts = <<>>
    /\ stdout = <<>>

\* C30: generate_backfill does not raise for any days >= 0: the day loops of the
\* endpoints and the scenario injection, the day-offset draw of the burst scenario
\* included, run to completion for every window.
C30_BackfillCompletes == ~C30_RaisedBeforeOutput

\* a run of 0 days: every day loop is over, the injection has reached the burst
\* scenario, and its day-offset draw random.randint(0, -1) has raised
C30_Witness ==
    /\ C30_RaisedBeforeOutput
    /\ bf.days = 0
    /\ bf.start_date = bf.end_date
    /\ ScenarioList[inj.scenario].name = "after_hours_burst"
    /\ inj.count = 1

\* a run of 1 day or more does not raise before its output
C30_CompletesFromOneDay == bf.days >= 1 => ~C30_RaisedBeforeOutput

=============================================================================
